---- MODULE Spec2Model ----
(***************************************************************************)
(* The Deferred / Promise engine of promised-io (promise.js).              *)
(*                                                                         *)
(* JavaScript is single threaded: every call made from the top level of a  *)
(* turn runs to completion, including every callback it invokes.  Each     *)
(* action below is one such call; the operators it uses compute the whole  *)
(* effect of the call on the heap of Deferreds, re-entrant calls made by   *)
(* callbacks included.  An exception is a result the operators hand back   *)
(* together with the heap as it was when the exception was thrown.         *)
(***************************************************************************)
EXTENDS Integers, Sequences, FiniteSets

VARIABLES
    deferreds,  \* the heap: one record of closure variables per Deferred, by id
    held,       \* the ids of the promises the program holds in a variable
    log,        \* history: every notify(listener), in the order they were made
    cancelLog,  \* history: every run of a canceller given to defer, with its reason
    timers,     \* the setTimeout callbacks not yet run, in the order they were set
    emitted,    \* the errors emitted as the module's "error" event
    lastCall,   \* history: the last top-level call and how it ended
    scopes,     \* the closure variables of every call of all, by call
    calls       \* the number of top-level calls made on existing Deferreds

vars == <<deferreds, held, log, cancelLog, timers, emitted, lastCall, scopes, calls>>

\* ------------------------------------------------------------------ bounds
\* Deferreds the top-level calls may allocate (defer, execute, then).
MaxDeferreds == 3
\* Top-level calls on existing Deferreds (then, resolve, reject, cancel, the
\* completion callback of execute, a timer firing).
MaxCalls == 3

\* ------------------------------------------------------------------ values
Num(n) == [t |-> "num", n |-> n, e |-> ""]
Err(name) == [t |-> "err", n |-> 0, e |-> name]
Undefined == [t |-> "undefined", n |-> 0, e |-> ""]
Null == [t |-> "null", n |-> 0, e |-> ""]
PromiseOf(d) == [t |-> "promise", n |-> d, e |-> ""]
BoolV(b) == [t |-> "bool", n |-> IF b THEN 1 ELSE 0, e |-> ""]
Obj(name) == [t |-> "obj", n |-> 0, e |-> name]
\* Array.prototype.slice.call(arguments, 1)
ArrayOf(items) == [t |-> "array", n |-> Len(items), e |-> "", items |-> items]

\* if(x): undefined, null, false and 0 are falsy.
Truthy(v) == v.t \in {"err", "promise", "obj", "array", "function"} \/ (v.t \in {"num", "bool"} /\ v.n # 0)
\* value && typeof value.then === "function"
IsThenable(v) == v.t = "promise"

CancelError == Err("CancelError")
TimeoutError == Err("TimeoutError")
AlreadyResolved == Err("This deferred has already been resolved")
TypeError == Err("TypeError")
Thrown == Err("thrown by callback")
CustomError == Obj("customError")
Reason == Obj("reason")
CallbackReason == Obj("callbackReason")

\* The outcome of a call: the heap after it, the exception it threw (NoExc when it
\* returned) and the value it returned.
NoExc == [t |-> "none", n |-> 0, e |-> ""]
Ok(m, v) == [m |-> m, exc |-> NoExc, ret |-> v]
Throw(m, x) == [m |-> m, exc |-> x, ret |-> Undefined]
Threw(r) == r.exc # NoExc
\* The one element of a singleton set.  A call's outcome r is bound as
\* One({ ... r ... : r \in {call} }), so that the call is evaluated once.
One(S) == CHOOSE x \in S : TRUE

\* --------------------------------------------------- callbacks and cancellers
\* A function value handed to the library: k is what its body does, a the Deferred
\* its closure refers to (0: none).
Fn(k, a) == [k |-> k, a |-> a]
NoFn == Fn("none", 0)
\* function(v){ return typeof v === "number" ? v + 1 : 0; }
Inc == Fn("inc", 0)
\* function(){ throw thrown; }
Thrower == Fn("throw", 0)

NoCanceller == Fn("none", 0)

\* new Deferred(canceller): the closure variables of one Deferred, and whether the
\* Deferred and its promise got a cancel.  waiting = null is drained = TRUE.
\* timeout is the variable of that name: the delay armed, or undefined.
\* The last eight fields are history: how the Deferred was made (defer, execute, then),
\* the Deferred whose then made it and the callbacks given to that then, its first
\* settlement, whether its own cancel rejected it, whether its timeout timer fired
\* while it was pending, and how often its rejection was emitted as unhandled.
Deferred(canceller, origin, parent, listener) ==
    [ result |-> Undefined, fulfilled |-> FALSE, isError |-> FALSE,
      waiting |-> <<>>, drained |-> FALSE, handled |-> FALSE,
      canceller |-> canceller,
      cancel |-> canceller # NoCanceller,
      promiseCancel |-> canceller # NoCanceller,
      origin |-> origin, parent |-> parent, listener |-> listener,
      timeout |-> Undefined,
      outcome |-> "pending", first |-> Undefined, cancelled |-> FALSE,
      timedOut |-> FALSE, reports |-> 0 ]

Allocated(m, d) == d \in 1..Len(m.deferreds)

\* History: the first settlement of d.
Mark(m, d, outcome, value) ==
    IF m.deferreds[d].fulfilled THEN m
    ELSE [m EXCEPT !.deferreds[d].outcome = outcome, !.deferreds[d].first = value]

RECURSIVE notifyAll(_, _, _)
RECURSIVE notifyLoop(_, _, _)
RECURSIVE notify(_, _, _)
RECURSIVE CallFn(_, _, _)
RECURSIVE resolve(_, _, _)
RECURSIVE reject(_, _, _, _)
RECURSIVE then(_, _, _, _, _)
RECURSIVE cancel(_, _, _)
RECURSIVE CallCanceller(_, _, _)
RECURSIVE progress(_, _, _)
RECURSIVE progressLoop(_, _, _, _)
RECURSIVE progressLoopUpTo(_, _, _, _, _)
RECURSIVE cancelEach(_, _, _)
RECURSIVE next(_, _, _)

\* this.resolve
resolve(m, d, value) ==
    notifyAll(Mark(m, d, "fulfilled", value), d, value)

\* this.reject: isError is set before notifyAll tests fulfilled.
reject(m, d, error, ignoreUnhandled) ==
    LET m1 == [Mark(m, d, "rejected", error) EXCEPT !.deferreds[d].isError = TRUE]
        handled(r) == r.m.deferreds[d].handled
    IN  One({ IF Threw(r) THEN r
              ELSE IF ~ignoreUnhandled /\ ~handled(r)
              THEN Ok([r.m EXCEPT !.timers =
                          Append(@, [kind |-> "unhandled", d |-> d, error |-> error])],
                      BoolV(handled(r)))
              ELSE Ok(r.m, BoolV(handled(r)))
              : r \in {notifyAll(m1, d, error)} })

\* notifyAll without its test of fulfilled.
notifyAllUnguarded(m, d, value) ==
    notifyLoop([m EXCEPT !.deferreds[d].result = value,
                         !.deferreds[d].fulfilled = TRUE], d, 1)

\* notifyAll
notifyAll(m, d, value) ==
    IF m.deferreds[d].fulfilled
    THEN Throw(m, AlreadyResolved)
    ELSE notifyLoop([m EXCEPT !.deferreds[d].result = value,
                              !.deferreds[d].fulfilled = TRUE], d, 1)

\* The for loop of notifyAll, from index i: waiting.length is read again on every
\* round, and waiting = null follows the loop.
notifyLoop(m, d, i) ==
    IF i > Len(m.deferreds[d].waiting)
    THEN Ok([m EXCEPT !.deferreds[d].waiting = <<>>, !.deferreds[d].drained = TRUE],
            Undefined)
    ELSE One({ IF Threw(r) THEN r ELSE notifyLoop(r.m, d, i + 1)
               : r \in {notify(m, d, m.deferreds[d].waiting[i])} })

\* notify passing a rejection on with listener.deferred.reject(result): every hop
\* sets its own timer.
notifyReportingHops(m, d, listener) ==
    LET isError == m.deferreds[d].isError
        result == m.deferreds[d].result
        func == IF isError THEN listener.error ELSE listener.resolved
        m0 == [m EXCEPT !.log = Append(@, [src |-> d, dst |-> listener.deferred,
                                            track |-> IF isError THEN "error" ELSE "resolved",
                                            fn |-> func, arg |-> result])]
    IN  IF func # NoFn
        THEN LET m1 == [m0 EXCEPT !.deferreds[d].handled = TRUE]
                 \* the rest of the try block, after func returned r
                 rest(r) == IF IsThenable(r.ret)
                            THEN then(r.m, r.ret.n, Fn("resolve", listener.deferred),
                                      Fn("reject", listener.deferred), NoFn)
                            ELSE resolve(r.m, listener.deferred, r.ret)
             IN  One({ IF Threw(r) THEN reject(r.m, listener.deferred, r.exc, FALSE)
                       ELSE One({ IF Threw(r2)
                                  THEN reject(r2.m, listener.deferred, r2.exc, FALSE)
                                  ELSE Ok(r2.m, Undefined)
                                  : r2 \in {rest(r)} })
                       : r \in {CallFn(m1, func, result)} })
        ELSE IF isError
             THEN One({ IF Threw(r) THEN r
                        ELSE Ok([r.m EXCEPT !.deferreds[d].handled = Truthy(r.ret)],
                                Undefined)
                        : r \in {reject(m0, listener.deferred, result, FALSE)} })
             ELSE resolve(m0, listener.deferred, result)

\* notify(listener) of Deferred d
notify(m, d, listener) ==
    LET isError == m.deferreds[d].isError
        result == m.deferreds[d].result
        func == IF isError THEN listener.error ELSE listener.resolved
        m0 == [m EXCEPT !.log = Append(@, [src |-> d, dst |-> listener.deferred,
                                            track |-> IF isError THEN "error" ELSE "resolved",
                                            fn |-> func, arg |-> result])]
    IN  IF func # NoFn
        THEN LET m1 == [m0 EXCEPT !.deferreds[d].handled = TRUE]
                 \* the rest of the try block, after func returned r
                 rest(r) == IF IsThenable(r.ret)
                            THEN then(r.m, r.ret.n, Fn("resolve", listener.deferred),
                                      Fn("reject", listener.deferred), NoFn)
                            ELSE resolve(r.m, listener.deferred, r.ret)
             IN  One({ IF Threw(r) THEN reject(r.m, listener.deferred, r.exc, FALSE)
                       ELSE One({ IF Threw(r2)
                                  THEN reject(r2.m, listener.deferred, r2.exc, FALSE)
                                  ELSE Ok(r2.m, Undefined)
                                  : r2 \in {rest(r)} })
                       : r \in {CallFn(m1, func, result)} })
        ELSE IF isError
             THEN One({ IF Threw(r) THEN r
                        ELSE Ok([r.m EXCEPT !.deferreds[d].handled = Truthy(r.ret)],
                                Undefined)
                        : r \in {reject(m0, listener.deferred, result, TRUE)} })
             ELSE resolve(m0, listener.deferred, result)

\* The closure variables of one call of all: waiting, results, fulfilled and
\* promises, with dropped for promises = results = null, and deferred, the id of
\* the aggregate's Deferred.  promises holds the ids of the Deferreds behind the
\* promises when returned; it is undefined (empty here) until map has returned.
\* History: the array all was given, the module all belongs to, and the number of
\* calls of deferred.resolve and deferred.reject its callbacks made.
Scope(deferred, array, older) ==
    [ deferred |-> deferred, waiting |-> Len(array), results |-> <<>>,
      fulfilled |-> FALSE, promises |-> <<>>, dropped |-> FALSE,
      array |-> array, older |-> older, attempts |-> 0 ]

\* results[index] = value on a JavaScript array: the indices skipped are holes.
SetAt(results, index, value) ==
    [k \in 1..(IF index > Len(results) THEN index ELSE Len(results)) |->
        IF k = index THEN value
        ELSE IF k <= Len(results) THEN results[k] ELSE Undefined]

\* The resolved callback of all pushing the value instead of storing it at index.
allResolvedInSettleOrder(m, s, index, value) ==
    LET scope == m.scopes[s]
    IN  IF ~scope.fulfilled
        THEN IF scope.dropped THEN Throw(m, TypeError)
             ELSE LET m1 == [m EXCEPT !.scopes[s].results = Append(@, value),
                                      !.scopes[s].waiting = @ - 1]
                  IN  IF m1.scopes[s].waiting = 0
                      THEN One({ IF Threw(r) THEN r ELSE Ok(r.m, Undefined)
                                 : r \in {resolve([m1 EXCEPT !.scopes[s].fulfilled = TRUE,
                                                              !.scopes[s].attempts = @ + 1],
                                                   scope.deferred,
                                                   ArrayOf(m1.scopes[s].results))} })
                      ELSE Ok(m1, Undefined)
        ELSE Ok(m, Undefined)

\* The resolved callback all passes to when for the input at index, the same in
\* both modules.  results[index] = value throws a TypeError once results is null.
allResolved(m, s, index, value) ==
    LET scope == m.scopes[s]
    IN  IF ~scope.fulfilled
        THEN IF scope.dropped THEN Throw(m, TypeError)
             ELSE LET m1 == [m EXCEPT !.scopes[s].results = SetAt(@, index, value),
                                      !.scopes[s].waiting = @ - 1]
                  IN  IF m1.scopes[s].waiting = 0
                      THEN One({ IF Threw(r) THEN r ELSE Ok(r.m, Undefined)
                                 : r \in {resolve([m1 EXCEPT !.scopes[s].fulfilled = TRUE,
                                                              !.scopes[s].attempts = @ + 1],
                                                   scope.deferred,
                                                   ArrayOf(m1.scopes[s].results))} })
                      ELSE Ok(m1, Undefined)
        ELSE Ok(m, Undefined)

\* The reject callback all passes to when, in the newer module.
allRejected(m, s, error) ==
    IF ~m.scopes[s].fulfilled
    THEN One({ IF Threw(r) THEN r ELSE Ok(r.m, Undefined)
               : r \in {reject([m EXCEPT !.scopes[s].fulfilled = TRUE,
                                         !.scopes[s].attempts = @ + 1],
                               m.scopes[s].deferred, error, FALSE)} })
    ELSE Ok(m, Undefined)

\* The reject callback all passes to when, in the older module: fulfilled is tested
\* but not set.
allRejectedOlder(m, s, error) ==
    IF ~m.scopes[s].fulfilled
    THEN One({ IF Threw(r) THEN r ELSE Ok(r.m, Undefined)
               : r \in {reject([m EXCEPT !.scopes[s].attempts = @ + 1],
                               m.scopes[s].deferred, error, FALSE)} })
    ELSE Ok(m, Undefined)

\* The closure variables of one call of first: fulfilled and promises, with dropped
\* for promises = null, and deferred, the id of the aggregate's Deferred.
\* History: the array first was given and the number of calls of deferred.resolve
\* and deferred.reject its callbacks made.
FirstScope(deferred, array) ==
    [ deferred |-> deferred, fulfilled |-> FALSE, promises |-> <<>>, dropped |-> FALSE,
      array |-> array, attempts |-> 0 ]

\* The resolved callback first passes to when.
firstResolved(m, s, value) ==
    IF ~m.scopes[s].fulfilled
    THEN One({ IF Threw(r) THEN r ELSE Ok(r.m, Undefined)
               : r \in {resolve([m EXCEPT !.scopes[s].fulfilled = TRUE,
                                          !.scopes[s].attempts = @ + 1],
                                m.scopes[s].deferred, value)} })
    ELSE Ok(m, Undefined)

\* The reject callback first passes to when.
firstRejected(m, s, error) ==
    IF ~m.scopes[s].fulfilled
    THEN One({ IF Threw(r) THEN r ELSE Ok(r.m, Undefined)
               : r \in {reject([m EXCEPT !.scopes[s].fulfilled = TRUE,
                                         !.scopes[s].attempts = @ + 1],
                               m.scopes[s].deferred, error, FALSE)} })
    ELSE Ok(m, Undefined)

\* An object of the program: its properties are in the scope s.
TargetObj(s) == [t |-> "obj", n |-> s, e |-> "target"]
ObjectScope(props) == [props |-> props]
\* A function of the program held in a property: echo returns the arguments it
\* received, thrower throws.
Method(name) == [t |-> "function", n |-> 0, e |-> name]

\* value[property]: reading a property of undefined or null is a TypeError.
GetProp(m, value, property) ==
    IF value.t \in {"undefined", "null"} THEN Throw(m, TypeError)
    ELSE IF value.t = "obj" /\ value.n > 0 /\ property \in DOMAIN m.scopes[value.n].props
    THEN Ok(m, m.scopes[value.n].props[property])
    ELSE Ok(m, Undefined)

\* value[property] = v
PutProp(m, value, property, v) ==
    IF value.t \in {"undefined", "null"} THEN Throw(m, TypeError)
    ELSE IF value.t = "obj" /\ value.n > 0
    THEN Ok([m EXCEPT !.scopes[value.n].props =
                        [q \in DOMAIN @ \cup {property} |-> IF q = property THEN v ELSE @[q]]],
            v)
    ELSE Ok(m, v)

\* method.apply(value, args): args undefined or null stands for no arguments;
\* History: the arguments the method received.
Apply(m, method, value, args) ==
    IF method.t # "function" THEN Throw(m, TypeError)
    ELSE IF args.t \notin {"undefined", "null", "array"} THEN Throw(m, TypeError)
    ELSE LET received == IF args.t = "array" THEN args.items ELSE <<>>
             m0 == [m EXCEPT !.log = Append(@, [src |-> 0, dst |-> 0, track |-> "method",
                                                fn |-> NoFn, arg |-> ArrayOf(received)])]
         IN  IF method.e = "thrower" THEN Throw(m0, Thrown)
             ELSE Ok(m0, ArrayOf(received))

\* value[methodName].apply(value, args)
CallProp(m, value, methodName, args) ==
    One({ IF Threw(r) THEN r ELSE Apply(r.m, r.ret, value, args)
          : r \in {GetProp(m, value, methodName)} })

\* The callbacks Promise.prototype.get, put and call pass to then: k is the
\* operation, p the property, v the value to put or the arguments to apply.
PropFn(k, p, v) == [k |-> k, a |-> 0, p |-> p, v |-> v]

\* The function values all passes to when for the input at index.
AllFn(k, s, index) == [k |-> k, a |-> s, i |-> index]

\* A call of the function value fn with one argument.  A callback of the program
\* reaches a promise through a variable of the program: the variable is undefined
\* until the then call that makes the promise has returned.
CallFn(m, fn, arg) ==
    CASE fn.k = "inc" -> Ok(m, IF arg.t = "num" THEN Num(arg.n + 1) ELSE Num(0))
      [] fn.k = "throw" -> Throw(m, Thrown)
      [] fn.k = "ret" -> Ok(m, fn.a)
      [] fn.k = "getProp" -> GetProp(m, arg, fn.p)
      [] fn.k = "putProp" -> PutProp(m, arg, fn.p, fn.v)
      [] fn.k = "callProp" -> CallProp(m, arg, fn.p, fn.v)
      [] fn.k = "retP" -> Ok(m, IF fn.a \in m.held THEN PromiseOf(fn.a) ELSE Undefined)
      [] fn.k = "thenOn" ->
            IF fn.a \notin m.held THEN Throw(m, TypeError)
            ELSE One({ IF Threw(r) THEN r ELSE Ok(r.m, arg)
                       : r \in {then(m, fn.a, Inc, Inc, NoFn)} })
      [] fn.k = "cancelP" ->
            IF fn.a \notin m.held THEN Throw(m, TypeError)
            ELSE IF ~m.deferreds[fn.a].promiseCancel THEN Throw(m, TypeError)
            ELSE One({ IF Threw(r) THEN r ELSE Ok(r.m, arg)
                       : r \in {cancel(m, fn.a, CallbackReason)} })
      [] fn.k = "resolve" -> resolve(m, fn.a, arg)
      [] fn.k = "reject" -> reject(m, fn.a, arg, FALSE)
      [] fn.k = "progress" -> progress(m, fn.a, arg)
      [] fn.k = "allResolved" -> allResolved(m, fn.a, fn.i, arg)
      [] fn.k = "allRejected" -> allRejected(m, fn.a, arg)
      [] fn.k = "allRejectedOlder" -> allRejectedOlder(m, fn.a, arg)
      [] fn.k = "next" -> next(m, fn.a, arg)
      [] fn.k = "firstResolved" -> firstResolved(m, fn.a, arg)
      [] fn.k = "firstRejected" -> firstRejected(m, fn.a, arg)
      [] fn.k = "watch" ->
            One({ IF Threw(r) THEN r ELSE Ok(r.m, Undefined)
                  : r \in {then(m, fn.a, NoFn, NoFn, Fn("note", 0))} })
      [] OTHER -> Ok(m, Undefined)

\* The for loop of progress over the listeners registered when it started: l is
\* waiting.length read once.
progressLoopUpTo(m, d, update, i, l) ==
    IF m.deferreds[d].drained THEN Throw(m, TypeError)
    ELSE IF i > l THEN Ok(m, Undefined)
    ELSE LET listener == m.deferreds[d].waiting[i]
             m0 == [m EXCEPT !.log = Append(@, [src |-> d, dst |-> listener.deferred,
                                                 track |-> "progress",
                                                 fn |-> listener.progress, arg |-> update])]
         IN  IF listener.progress = NoFn THEN progressLoopUpTo(m, d, update, i + 1, l)
             ELSE One({ IF Threw(r) THEN r ELSE progressLoopUpTo(r.m, d, update, i + 1, l)
                        : r \in {CallFn(m0, listener.progress, update)} })

\* progress reading waiting.length once, before the loop.
progressOverSnapshot(m, d, update) ==
    progressLoopUpTo(m, d, update, 1, Len(m.deferreds[d].waiting))

\* progress emptying the queue once the listeners have been visited.
progressDraining(m, d, update) ==
    One({ IF Threw(r) THEN r ELSE Ok([r.m EXCEPT !.deferreds[d].waiting = <<>>], r.ret)
          : r \in {progressLoop(m, d, update, 1)} })

\* this.progress: waiting is null once the listeners have been notified, and
\* waiting.length then throws a TypeError.
progress(m, d, update) == progressLoop(m, d, update, 1)

\* The for loop of progress, from index i: waiting.length is read again on every
\* round.
progressLoop(m, d, update, i) ==
    IF m.deferreds[d].drained THEN Throw(m, TypeError)
    ELSE IF i > Len(m.deferreds[d].waiting) THEN Ok(m, Undefined)
    ELSE LET listener == m.deferreds[d].waiting[i]
             m0 == [m EXCEPT !.log = Append(@, [src |-> d, dst |-> listener.deferred,
                                                 track |-> "progress",
                                                 fn |-> listener.progress, arg |-> update])]
         IN  IF listener.progress = NoFn THEN progressLoop(m, d, update, i + 1)
             ELSE One({ IF Threw(r) THEN r ELSE progressLoop(r.m, d, update, i + 1)
                        : r \in {CallFn(m0, listener.progress, update)} })

\* then testing fulfilled alone, not the drained queue: if(fulfilled) notify(listener).
thenIgnoringWaiting(m, d, resolvedCallback, rejectCallback, progressCallback) ==
    LET c == Len(m.deferreds) + 1
        returnDeferred ==
            Deferred(IF m.deferreds[d].promiseCancel THEN Fn("parent", d) ELSE NoCanceller,
                     "then", d, [resolved |-> resolvedCallback, error |-> rejectCallback])
        m1 == [m EXCEPT !.deferreds = Append(@, returnDeferred)]
        listener == [resolved |-> resolvedCallback, error |-> rejectCallback,
                     progress |-> progressCallback, deferred |-> c]
    IN  IF m1.deferreds[d].fulfilled
        THEN One({ IF Threw(r) THEN r ELSE Ok(r.m, PromiseOf(c))
                   : r \in {notify(m1, d, listener)} })
        ELSE Ok([m1 EXCEPT !.deferreds[d].waiting = Append(@, listener)], PromiseOf(c))

\* then giving every Deferred it makes a canceller: new Deferred(function(reason){
\* promise.cancel && promise.cancel(reason); }).
thenAlwaysCancellable(m, d, resolvedCallback, rejectCallback, progressCallback) ==
    LET c == Len(m.deferreds) + 1
        returnDeferred ==
            Deferred(Fn("parent", d),
                     "then", d, [resolved |-> resolvedCallback, error |-> rejectCallback])
        m1 == [m EXCEPT !.deferreds = Append(@, returnDeferred)]
        listener == [resolved |-> resolvedCallback, error |-> rejectCallback,
                     progress |-> progressCallback, deferred |-> c]
    IN  IF m1.deferreds[d].fulfilled /\ m1.deferreds[d].drained
        THEN One({ IF Threw(r) THEN r ELSE Ok(r.m, PromiseOf(c))
                   : r \in {notify(m1, d, listener)} })
        ELSE Ok([m1 EXCEPT !.deferreds[d].waiting = Append(@, listener)], PromiseOf(c))

\* this.then / promise.then
then(m, d, resolvedCallback, rejectCallback, progressCallback) ==
    LET c == Len(m.deferreds) + 1
        returnDeferred ==
            Deferred(IF m.deferreds[d].promiseCancel THEN Fn("parent", d) ELSE NoCanceller,
                     "then", d, [resolved |-> resolvedCallback, error |-> rejectCallback])
        m1 == [m EXCEPT !.deferreds = Append(@, returnDeferred)]
        listener == [resolved |-> resolvedCallback, error |-> rejectCallback,
                     progress |-> progressCallback, deferred |-> c]
    IN  IF m1.deferreds[d].fulfilled /\ m1.deferreds[d].drained
        THEN One({ IF Threw(r) THEN r ELSE Ok(r.m, PromiseOf(c))
                   : r \in {notify(m1, d, listener)} })
        ELSE Ok([m1 EXCEPT !.deferreds[d].waiting = Append(@, listener)], PromiseOf(c))

\* The canceller of all cancelling the first of its promises alone.
cancelEachFirstOnly(m, promises, i) ==
    IF i > 1 \/ i > Len(promises) THEN Ok(m, Undefined)
    ELSE IF ~m.deferreds[promises[i]].promiseCancel THEN Ok(m, Undefined)
    ELSE cancel(m, promises[i], Undefined)

\* The canceller of all: promises.forEach(function(promise){ promise.cancel &&
\* promise.cancel(); }), from index i.
cancelEach(m, promises, i) ==
    IF i > Len(promises) THEN Ok(m, Undefined)
    ELSE IF ~m.deferreds[promises[i]].promiseCancel THEN cancelEach(m, promises, i + 1)
    ELSE One({ IF Threw(r) THEN r ELSE cancelEach(r.m, promises, i + 1)
               : r \in {cancel(m, promises[i], Undefined)} })

\* The canceller of seq leaving cancelled and array as they are.
seqCancellerWithoutEffect(m, s) == Ok(m, Undefined)

\* The canceller of seq: cancelled = true; array = null.
seqCanceller(m, s) ==
    Ok([m EXCEPT !.scopes[s].cancelled = TRUE, !.scopes[s].array = <<>>,
                 !.scopes[s].nulled = TRUE], Undefined)

\* The closure variables of one call of request: cancelled, bodyCancelled, closed,
\* and deferred and bodyDeferred, the ids of the two Deferreds (0: undefined).
\* History: the events the transport has emitted, the number of calls of
\* req.abort(), the number of runs of the guarded body of the canceller, and for
\* each call an event handler made of resolve or reject on deferred, the handler
\* and whether deferred was settled already.
RequestScope(deferred) ==
    [ deferred |-> deferred, bodyDeferred |-> 0, cancelled |-> FALSE,
      bodyCancelled |-> FALSE, closed |-> FALSE,
      events |-> {}, aborts |-> 0, bodies |-> 0, settlements |-> <<>> ]

\* The canceller of request returning nothing whatever the reason.
requestCancellerDroppingReason(m, s, reason) ==
    LET scope == m.scopes[s]
        m1 == [m EXCEPT !.scopes[s].cancelled = TRUE, !.scopes[s].bodies = @ + 1]
        abort(h) == IF ~h.scopes[s].closed
                    THEN [h EXCEPT !.scopes[s].aborts = @ + 1] ELSE h
    IN  IF ~scope.cancelled
        THEN IF scope.bodyDeferred # 0
             THEN One({ IF Threw(r) THEN r ELSE Ok(abort(r.m), Undefined)
                        : r \in {cancel(m1, scope.bodyDeferred, Undefined)} })
             ELSE Ok(abort(m1), Undefined)
        ELSE Ok(m, Undefined)

\* The canceller request gives to defer: if(!cancelled){ cancelled = true;
\* bodyDeferred && bodyDeferred.cancel(); !closed && req.abort();
\* if(reason instanceof TimeoutError){ return reason; } }
requestCanceller(m, s, reason) ==
    LET scope == m.scopes[s]
        m1 == [m EXCEPT !.scopes[s].cancelled = TRUE, !.scopes[s].bodies = @ + 1]
        abort(h) == IF ~h.scopes[s].closed
                    THEN [h EXCEPT !.scopes[s].aborts = @ + 1] ELSE h
        returned == IF reason = TimeoutError THEN reason ELSE Undefined
    IN  IF ~scope.cancelled
        THEN IF scope.bodyDeferred # 0
             THEN One({ IF Threw(r) THEN r ELSE Ok(abort(r.m), returned)
                        : r \in {cancel(m1, scope.bodyDeferred, Undefined)} })
             ELSE Ok(abort(m1), returned)
        ELSE Ok(m, Undefined)

\* The canceller of bodyDeferred: req.abort(); bodyCancelled = true.
bodyCanceller(m, s) ==
    Ok([m EXCEPT !.scopes[s].aborts = @ + 1, !.scopes[s].bodyCancelled = TRUE], Undefined)

\* canceller(reason): the canceller given to defer, or promise.cancel of the parent
\* for a Deferred made by then.  A canceller of the program returns nothing ("undef"),
\* returns an error of its own ("err"), throws ("throw"), or resolves its Deferred
\* and returns nothing ("settle").
CallCanceller(m, d, reason) ==
    LET canceller == m.deferreds[d].canceller
        m1 == [m EXCEPT !.cancelLog = Append(@, [d |-> d, reason |-> reason])]
    IN  CASE canceller.k = "parent" -> cancel(m, canceller.a, reason)
          [] canceller.k = "all" ->
                IF m.scopes[canceller.a].dropped THEN Throw(m1, TypeError)
                ELSE One({ IF Threw(r) THEN r
                           ELSE Ok([r.m EXCEPT !.scopes[canceller.a].dropped = TRUE,
                                               !.scopes[canceller.a].promises = <<>>,
                                               !.scopes[canceller.a].results = <<>>],
                                   Undefined)
                           : r \in {cancelEach(m1, m.scopes[canceller.a].promises, 1)} })
          [] canceller.k = "first" ->
                IF m.scopes[canceller.a].dropped THEN Throw(m1, TypeError)
                ELSE One({ IF Threw(r) THEN r
                           ELSE Ok([r.m EXCEPT !.scopes[canceller.a].dropped = TRUE,
                                               !.scopes[canceller.a].promises = <<>>],
                                   Undefined)
                           : r \in {cancelEach(m1, m.scopes[canceller.a].promises, 1)} })
          [] canceller.k = "seq" -> seqCanceller(m1, canceller.a)
          [] canceller.k = "delay" ->
                Ok([m1 EXCEPT !.scopes[canceller.a].cancelled = TRUE], Undefined)
          [] canceller.k = "request" -> requestCanceller(m1, canceller.a, reason)
          [] canceller.k = "body" -> bodyCanceller(m1, canceller.a)
          [] canceller.k = "undef" -> Ok(m1, Undefined)
          [] canceller.k = "err" -> Ok(m1, CustomError)
          [] canceller.k = "throw" -> Throw(m1, Thrown)
          [] canceller.k = "settle" ->
                One({ IF Threw(r) THEN r ELSE Ok(r.m, Undefined)
                      : r \in {resolve(m1, d, Num(0))} })
          [] OTHER -> Throw(m, TypeError)

\* cancel without its first test of fulfilled.
cancelOnSettled(m, d, reason) ==
    One({ IF Threw(r) THEN r
          ELSE IF ~r.m.deferreds[d].fulfilled
          THEN One({ IF Threw(r2) THEN r2 ELSE Ok(r2.m, Undefined)
                     : r2 \in {reject([r.m EXCEPT !.deferreds[d].cancelled = TRUE], d,
                                       IF r.ret = Undefined THEN CancelError ELSE r.ret,
                                       FALSE)} })
          ELSE Ok(r.m, Undefined)
          : r \in {CallCanceller(m, d, reason)} })

\* cancel rejecting with a CancelError whatever the canceller returned.
cancelDroppingError(m, d, reason) ==
    IF ~m.deferreds[d].fulfilled
    THEN One({ IF Threw(r) THEN r
               ELSE IF ~r.m.deferreds[d].fulfilled
               THEN One({ IF Threw(r2) THEN r2 ELSE Ok(r2.m, Undefined)
                          : r2 \in {reject([r.m EXCEPT !.deferreds[d].cancelled = TRUE],
                                            d, CancelError, FALSE)} })
               ELSE Ok(r.m, Undefined)
               : r \in {CallCanceller(m, d, reason)} })
    ELSE Ok(m, Undefined)

\* cancel without its second test of fulfilled, after the canceller has run.
cancelWithoutSecondTest(m, d, reason) ==
    IF ~m.deferreds[d].fulfilled
    THEN LET error(r) == IF r.ret = Undefined THEN CancelError ELSE r.ret
         IN  One({ IF Threw(r) THEN r
                   ELSE One({ IF Threw(r2) THEN r2 ELSE Ok(r2.m, Undefined)
                              : r2 \in {reject([r.m EXCEPT !.deferreds[d].cancelled = TRUE],
                                                d, error(r), FALSE)} })
                   : r \in {CallCanceller(m, d, reason)} })
    ELSE Ok(m, Undefined)

\* this.cancel / promise.cancel
cancel(m, d, reason) ==
    IF ~m.deferreds[d].fulfilled
    THEN LET error(r) == IF r.ret = Undefined THEN CancelError ELSE r.ret
         IN  One({ IF Threw(r) THEN r
                   ELSE IF ~r.m.deferreds[d].fulfilled
                   THEN One({ IF Threw(r2) THEN r2 ELSE Ok(r2.m, Undefined)
                              : r2 \in {reject([r.m EXCEPT !.deferreds[d].cancelled = TRUE],
                                                d, error(r), FALSE)} })
                   ELSE Ok(r.m, Undefined)
                   : r \in {CallCanceller(m, d, reason)} })
    ELSE Ok(m, Undefined)

\* The completion callback fulfilling with its second argument however many
\* success values it is given.
completionCallbackFirstValueOnly(m, d, arguments) ==
    LET error == IF Len(arguments) >= 1 THEN arguments[1] ELSE Undefined
        result == IF Len(arguments) >= 2 THEN arguments[2] ELSE Undefined
    IN  IF Truthy(error) THEN reject(m, d, error, FALSE)
        ELSE resolve(m, d, result)

\* function(error, result) that execute and the wrapper of convertAsync pass as
\* the last argument, called with the list arguments.
completionCallback(m, d, arguments) ==
    LET error == IF Len(arguments) >= 1 THEN arguments[1] ELSE Undefined
        result == IF Len(arguments) >= 2 THEN arguments[2] ELSE Undefined
    IN  IF Truthy(error) THEN reject(m, d, error, FALSE)
        ELSE IF Len(arguments) > 2
             THEN resolve(m, d, ArrayOf(SubSeq(arguments, 2, Len(arguments))))
             ELSE resolve(m, d, result)

\* The completion callback execute appends to the arguments: function(error, result).
\* kind is how it is called: with an error, with one success value, with several.
Completion(m, d, kind) ==
    CASE kind = "error" -> completionCallback(m, d, <<Obj("failure")>>)
      [] kind = "many" -> completionCallback(m, d, <<Null, Num(1), Num(2)>>)
      [] OTHER -> completionCallback(m, d, <<Null, Num(1)>>)

\* asyncFunction.apply(this, args): the function calls the completion callback
\* before it returns (cb: how) or keeps it for later (cb = "none"), and then throws
\* or returns.
CallAsync(m, d, asyncFunction) ==
    One({ IF Threw(r) THEN r
          ELSE IF asyncFunction.throws THEN Throw(r.m, Thrown)
          ELSE Ok(r.m, Undefined)
          : r \in {IF asyncFunction.cb = "none" THEN Ok(m, Undefined)
                   ELSE IF asyncFunction.cb = "call"
                        THEN completionCallback(m, d, asyncFunction.arguments)
                        ELSE Completion(m, d, asyncFunction.cb)} })

\* exports.execute
execute(m, asyncFunction) ==
    LET d == Len(m.deferreds) + 1
        m1 == [m EXCEPT !.deferreds = Append(@, Deferred(NoCanceller, "execute", 0, NoFn))]
    IN  One({ IF Threw(r)
              THEN One({ IF Threw(r2) THEN r2 ELSE Ok(r2.m, PromiseOf(d))
                         : r2 \in {reject(r.m, d, r.exc, FALSE)} })
              ELSE Ok(r.m, PromiseOf(d))
              : r \in {CallAsync(m1, d, asyncFunction)} })

\* The closure variables of one call of convertAsync.
ConvertScope(asyncFunction, callbackNotDeclared) ==
    [asyncFunction |-> asyncFunction, callbackNotDeclared |-> callbackNotDeclared,
     arity |-> asyncFunction.length]

\* exports.convertAsync: returns the wrapper.
convertAsync(m, asyncFunction, callbackNotDeclared) ==
    Ok([m EXCEPT !.scopes = Append(@, ConvertScope(asyncFunction, callbackNotDeclared))],
       [t |-> "function", n |-> Len(m.scopes) + 1, e |-> "converted"])

\* The wrapper convertAsync returned, called with n arguments.  The callback is
\* stored at index arity - 1 of arguments.  An asyncFunction that declares the
\* callback takes it from its last declared parameter, index length - 1, and one
\* that does not takes arguments[arguments.length - 1]; an asyncFunction that
\* finds no function there faults when it calls it.
converted(m, s, n) ==
    LET asyncFunction == m.scopes[s].asyncFunction
        arity == IF m.scopes[s].callbackNotDeclared THEN n + 1 ELSE m.scopes[s].arity
        passed == ~asyncFunction.declared \/ arity = asyncFunction.length
        d == Len(m.deferreds) + 1
        m1 == [m EXCEPT !.deferreds = Append(@, Deferred(NoCanceller,
                                IF passed THEN "convertAsync" ELSE "convertAsync, no callback",
                                0, NoFn)),
                        !.scopes[s].arity = arity]
    IN  One({ IF Threw(r)
              THEN One({ IF Threw(r2) THEN r2 ELSE Ok(r2.m, PromiseOf(d))
                         : r2 \in {reject(r.m, d, r.exc, FALSE)} })
              ELSE Ok(r.m, PromiseOf(d))
              : r \in {IF passed THEN CallAsync(m1, d, asyncFunction)
                       ELSE IF asyncFunction.cb # "none" THEN Throw(m1, TypeError)
                       ELSE CallAsync(m1, d, asyncFunction)} })

\* exports.resolved
resolved(m, value) ==
    LET d == Len(m.deferreds) + 1
        m1 == [m EXCEPT !.deferreds = Append(@, Deferred(NoCanceller, "resolved", 0, NoFn))]
    IN  One({ IF Threw(r) THEN r ELSE Ok(r.m, PromiseOf(d))
              : r \in {resolve(m1, d, value)} })

\* exports.when
when(m, value, resolvedCallback, rejectCallback, progressCallback) ==
    IF Truthy(value) /\ IsThenable(value)
    THEN then(m, value.n, resolvedCallback, rejectCallback, progressCallback)
    ELSE One({ IF Threw(r) THEN r
               ELSE then(r.m, r.ret.n, resolvedCallback, rejectCallback, progressCallback)
               : r \in {resolved(m, value)} })

\* exports.rejected
rejected(m, error) ==
    LET d == Len(m.deferreds) + 1
        m1 == [m EXCEPT !.deferreds = Append(@, Deferred(NoCanceller, "rejected", 0, NoFn))]
    IN  One({ IF Threw(r) THEN r ELSE Ok(r.m, PromiseOf(d))
              : r \in {reject(m1, d, error, FALSE)} })

\* Promise.prototype.get
promiseGet(m, d, propertyName) ==
    then(m, d, PropFn("getProp", propertyName, Undefined), NoFn, NoFn)

\* Promise.prototype.put
promisePut(m, d, propertyName, value) ==
    then(m, d, PropFn("putProp", propertyName, value), NoFn, NoFn)

\* Promise.prototype.call(functionName, ...): rest is the list of the arguments
\* after functionName, Array.prototype.slice.call(arguments, 1).
promiseCall(m, d, functionName, rest) ==
    then(m, d, PropFn("callProp", functionName, ArrayOf(rest)), NoFn, NoFn)

\* The function async of get, call and put: the method of the promise.  call
\* passes its args as the one argument after methodName.
performAsync(m, value, op) ==
    CASE op.k = "get" -> promiseGet(m, value.n, op.p)
      [] op.k = "put" -> promisePut(m, value.n, op.p, op.v)
      [] OTHER -> promiseCall(m, value.n, op.p, <<op.v>>)

\* The function sync of get, call and put: the operation on the target itself.
performSync(m, value, op) ==
    CASE op.k = "get" -> GetProp(m, value, op.p)
      [] op.k = "put" -> PutProp(m, value, op.p, op.v)
      [] OTHER -> CallProp(m, value, op.p, op.v)

\* perform: the catch block rejects with the variable value, which still holds
\* the target when async or sync threw.
perform(m, value, op) ==
    One({ IF Threw(r) THEN rejected(r.m, value)
          ELSE IF Truthy(r.ret) /\ IsThenable(r.ret) THEN r
          ELSE resolved(r.m, r.ret)
          : r \in {IF Truthy(value) /\ IsThenable(value) THEN performAsync(m, value, op)
                   ELSE performSync(m, value, op)} })

\* exports.get, exports.put, exports.call
get(m, target, property) == perform(m, target, PropFn("get", property, Undefined))
put(m, target, property, value) == perform(m, target, PropFn("put", property, value))
call(m, target, methodName, args) == perform(m, target, PropFn("call", methodName, args))

\* The catch block of whenCall: return rejected(e).then(null, rejectCallback).
whenCallCatch(m, e, rejectCallback) ==
    One({ IF Threw(r) THEN r ELSE then(r.m, r.ret.n, NoFn, rejectCallback, NoFn)
          : r \in {rejected(m, e)} })

\* History: initialCallback is called.
InitCalled(m, initialCallback) ==
    [m EXCEPT !.log = Append(@, [src |-> 0, dst |-> 0, track |-> "init",
                                 fn |-> initialCallback, arg |-> Undefined])]

\* whenCall without its try block.
whenCallWithoutTry(m, initialCallback, resolvedCallback, rejectCallback, progressCallback) ==
    One({ IF Threw(r) THEN r
          ELSE when(r.m, r.ret, resolvedCallback, rejectCallback, progressCallback)
          : r \in {CallFn(InitCalled(m, initialCallback), initialCallback, Undefined)} })

\* exports.whenCall: the try block holds the call of initialCallback and the call
\* of when.
whenCall(m, initialCallback, resolvedCallback, rejectCallback, progressCallback) ==
    One({ IF Threw(r) THEN whenCallCatch(r.m, r.exc, rejectCallback)
          ELSE One({ IF Threw(r2) THEN whenCallCatch(r2.m, r2.exc, rejectCallback)
                     ELSE r2
                     : r2 \in {when(r.m, r.ret, resolvedCallback, rejectCallback,
                                    progressCallback)} })
          : r \in {CallFn(InitCalled(m, initialCallback), initialCallback, Undefined)} })

\* array.map(function(promise, index){ return when(promise, ...); }) of all, from
\* index on: it returns the promises made so far and those it makes.
RECURSIVE allMap(_, _, _, _, _)
allMap(m, s, array, index, promises) ==
    IF index > Len(array) THEN Ok(m, ArrayOf(promises))
    ELSE One({ IF Threw(r) THEN r
               ELSE allMap(r.m, s, array, index + 1, Append(promises, r.ret.n))
               : r \in {when(m, array[index], AllFn("allResolved", s, index),
                             IF m.scopes[s].older THEN AllFn("allRejectedOlder", s, 0)
                             ELSE AllFn("allRejected", s, 0),
                             NoFn)} })

\* The Deferred and the closure variables all makes, and its map over the array.
allDeferred(m, array, older) ==
    LET d == Len(m.deferreds) + 1
        s == Len(m.scopes) + 1
        m1 == [m EXCEPT !.deferreds = Append(@, Deferred(Fn("all", s), "all", 0, NoFn)),
                        !.scopes = Append(@, Scope(d, array, older))]
    IN  IF Len(array) = 0
        THEN One({ IF Threw(r) THEN r ELSE Ok(r.m, PromiseOf(d))
                   : r \in {resolve(m1, d, ArrayOf(<<>>))} })
        ELSE One({ IF Threw(r) THEN r
                   ELSE Ok([r.m EXCEPT !.scopes[s].promises = r.ret.items], PromiseOf(d))
                   : r \in {allMap(m1, s, array, 1, <<>>)} })

\* exports.all of the newer module, given an array
all(m, array) ==
    IF Len(array) = 0 THEN resolved(m, ArrayOf(<<>>))
    ELSE allDeferred(m, array, FALSE)

\* exports.all of the older module, given an array
allOlder(m, array) == allDeferred(m, array, TRUE)

\* array.map(function(promise){ return when(promise, ...); }) of first, from index
\* on: it returns the promises made so far and those it makes.
RECURSIVE firstMap(_, _, _, _, _)
firstMap(m, s, array, index, promises) ==
    IF index > Len(array) THEN Ok(m, ArrayOf(promises))
    ELSE One({ IF Threw(r) THEN r
               ELSE firstMap(r.m, s, array, index + 1, Append(promises, r.ret.n))
               : r \in {when(m, array[index], Fn("firstResolved", s),
                             Fn("firstRejected", s), NoFn)} })

\* exports.first, given an array
first(m, array) ==
    LET d == Len(m.deferreds) + 1
        s == Len(m.scopes) + 1
        m1 == [m EXCEPT !.deferreds = Append(@, Deferred(Fn("first", s), "first", 0, NoFn)),
                        !.scopes = Append(@, FirstScope(d, array))]
    IN  One({ IF Threw(r) THEN r
              ELSE Ok([r.m EXCEPT !.scopes[s].promises = r.ret.items], PromiseOf(d))
              : r \in {firstMap(m1, s, array, 1, <<>>)} })

\* The closure variables of one call of seq: array (the copy, which shift
\* shortens; nulled for array = null), cancelled, and deferred, the id of the
\* aggregate's Deferred.  History: the actions seq was given, its starting value
\* and every invocation of an action: the index of the action, its argument and
\* whether the aggregate was settled by then.
SeqScope(deferred, array, startingValue) ==
    [ deferred |-> deferred, array |-> array, nulled |-> FALSE, cancelled |-> FALSE,
      actions |-> array, startingValue |-> startingValue, invoked |-> <<>> ]

\* next of seq passing no reject callback to when: when(nextAction(value), next).
nextWithoutRejectCallback(m, s, value) ==
    LET scope == m.scopes[s]
    IN  IF scope.cancelled THEN Ok(m, Undefined)
        ELSE IF scope.nulled THEN Throw(m, TypeError)
        ELSE IF scope.array = <<>>
        THEN One({ IF Threw(r) THEN r ELSE Ok(r.m, Undefined)
                   : r \in {resolve(m, scope.deferred, value)} })
        ELSE LET nextAction == Head(scope.array)
                 m1 == [m EXCEPT !.scopes[s].array = Tail(@),
                                 !.scopes[s].invoked =
                                     Append(@, [index |-> Len(scope.actions) - Len(scope.array) + 1,
                                                arg |-> value,
                                                settled |-> m.deferreds[scope.deferred].fulfilled])]
                 caught(r) == One({ IF Threw(r2) THEN r2 ELSE Ok(r2.m, Undefined)
                                    : r2 \in {reject(r.m, scope.deferred, r.exc, FALSE)} })
             IN  One({ IF Threw(r) THEN caught(r)
                       ELSE One({ IF Threw(r2) THEN caught(r2) ELSE Ok(r2.m, Undefined)
                                  : r2 \in {when(r.m, r.ret, Fn("next", s), NoFn, NoFn)} })
                       : r \in {CallFn(m1, nextAction, value)} })

\* function next(value) of seq.  array.shift() returns undefined on the empty
\* array and throws a TypeError once array is null.
next(m, s, value) ==
    LET scope == m.scopes[s]
    IN  IF scope.cancelled THEN Ok(m, Undefined)
        ELSE IF scope.nulled THEN Throw(m, TypeError)
        ELSE IF scope.array = <<>>
        THEN One({ IF Threw(r) THEN r ELSE Ok(r.m, Undefined)
                   : r \in {resolve(m, scope.deferred, value)} })
        ELSE LET nextAction == Head(scope.array)
                 m1 == [m EXCEPT !.scopes[s].array = Tail(@),
                                 !.scopes[s].invoked =
                                     Append(@, [index |-> Len(scope.actions) - Len(scope.array) + 1,
                                                arg |-> value,
                                                settled |-> m.deferreds[scope.deferred].fulfilled])]
                 caught(r) == One({ IF Threw(r2) THEN r2 ELSE Ok(r2.m, Undefined)
                                    : r2 \in {reject(r.m, scope.deferred, r.exc, FALSE)} })
             IN  One({ IF Threw(r) THEN caught(r)
                       ELSE One({ IF Threw(r2) THEN caught(r2) ELSE Ok(r2.m, Undefined)
                                  : r2 \in {when(r.m, r.ret, Fn("next", s),
                                                 Fn("reject", scope.deferred), NoFn)} })
                       : r \in {CallFn(m1, nextAction, value)} })

\* exports.seq
seq(m, array, startingValue) ==
    LET d == Len(m.deferreds) + 1
        s == Len(m.scopes) + 1
        m1 == [m EXCEPT !.deferreds = Append(@, Deferred(Fn("seq", s), "seq", 0, NoFn)),
                        !.scopes = Append(@, SeqScope(d, array, startingValue))]
    IN  One({ IF Threw(r) THEN r ELSE Ok(r.m, PromiseOf(d))
              : r \in {next(m1, s, startingValue)} })

\* The closure variables of one call of delay: cancelled, and deferred, the id of
\* its Deferred.  History: whether the timer has fired.
DelayScope(deferred) == [deferred |-> deferred, cancelled |-> FALSE, fired |-> FALSE]

\* exports.delay: the timer is set, its callback runs in a later turn.
delay(m, ms) ==
    LET d == Len(m.deferreds) + 1
        s == Len(m.scopes) + 1
    IN  Ok([m EXCEPT !.deferreds = Append(@, Deferred(Fn("delay", s), "delay", 0, NoFn)),
                     !.scopes = Append(@, DelayScope(d)),
                     !.timers = Append(@, [kind |-> "delay", d |-> d, error |-> Undefined,
                                           s |-> s])],
           PromiseOf(d))

\* The timer callback of delay resolving whether cancelled or not.
DelayCheckUnguarded(m, s) ==
    resolve([m EXCEPT !.scopes[s].fired = TRUE], m.scopes[s].deferred, Undefined)

\* The callback delay passes to setTimeout: !cancelled && deferred.resolve().
DelayCheck(m, s) ==
    IF ~m.scopes[s].cancelled
    THEN resolve([m EXCEPT !.scopes[s].fired = TRUE], m.scopes[s].deferred, Undefined)
    ELSE Ok([m EXCEPT !.scopes[s].fired = TRUE], Undefined)

\* timeout arming again although a timeout is armed: if(ms === undefined) return timeout.
timeoutRearming(m, d, ms) ==
    IF ms = Undefined
    THEN Ok(m, m.deferreds[d].timeout)
    ELSE Ok([m EXCEPT !.deferreds[d].timeout = ms,
                      !.timers = Append(@, [kind |-> "timeout", d |-> d, error |-> Undefined])],
            PromiseOf(d))

\* this.timeout.  No clock is kept: ms is only the value timeout returns later on.
timeout(m, d, ms) ==
    IF ms = Undefined \/ m.deferreds[d].timeout # Undefined
    THEN Ok(m, m.deferreds[d].timeout)
    ELSE Ok([m EXCEPT !.deferreds[d].timeout = ms,
                      !.timers = Append(@, [kind |-> "timeout", d |-> d, error |-> Undefined])],
            PromiseOf(d))

\* The timer callback without its test of fulfilled.
TimeoutCheckUnguarded(m, d) ==
    LET m1 == [m EXCEPT !.deferreds[d].timedOut = ~m.deferreds[d].fulfilled]
    IN  IF m1.deferreds[d].promiseCancel
        THEN cancel(m1, d, TimeoutError)
        ELSE reject(m1, d, TimeoutError, FALSE)

\* The timer callback cancelling without a reason: promise.cancel().
TimeoutCheckWithoutReason(m, d) ==
    IF ~m.deferreds[d].fulfilled
    THEN LET m1 == [m EXCEPT !.deferreds[d].timedOut = TRUE]
         IN  IF m1.deferreds[d].promiseCancel
             THEN cancel(m1, d, Undefined)
             ELSE reject(m1, d, TimeoutError, FALSE)
    ELSE Ok(m, Undefined)

\* The callback timeout passes to setTimeout.
TimeoutCheck(m, d) ==
    IF ~m.deferreds[d].fulfilled
    THEN LET m1 == [m EXCEPT !.deferreds[d].timedOut = TRUE]
         IN  IF m1.deferreds[d].promiseCancel
             THEN cancel(m1, d, TimeoutError)
             ELSE reject(m1, d, TimeoutError, FALSE)
    ELSE Ok(m, Undefined)

\* The callback reject passes to setTimeout.
UnhandledCheck(m, timer) ==
    IF ~m.deferreds[timer.d].handled
    THEN [m EXCEPT !.emitted = Append(@, timer.error),
                   !.deferreds[timer.d].reports = @ + 1]
    ELSE m

\* The values of request: the response object and new AbortError.
Response == Obj("response")
AbortError == Err("AbortError")

\* deferred.resolve or deferred.reject called by the event handler named by: the
\* call is recorded with whether deferred was settled before it.
Settling(m, s, by) ==
    [m EXCEPT !.scopes[s].settlements =
        Append(@, [by |-> by, settled |-> m.deferreds[m.scopes[s].deferred].fulfilled])]

\* req.on("error", ...)
onError(m, s, error) ==
    LET scope == m.scopes[s]
    IN  IF scope.bodyDeferred # 0 /\ ~scope.bodyCancelled
        THEN reject(m, scope.bodyDeferred, error, FALSE)
        ELSE IF ~scope.cancelled
        THEN reject(Settling(m, s, "error"), scope.deferred, error, FALSE)
        ELSE Ok(m, Undefined)

\* req.on("close", ...)
onClose(m, s) ==
    IF ~m.scopes[s].closed
    THEN reject(Settling([m EXCEPT !.scopes[s].closed = TRUE], s, "close"),
                m.scopes[s].deferred, AbortError, FALSE)
    ELSE Ok(m, Undefined)

\* req.on("response", ...): bodyDeferred is made and the response is delivered.
onResponse(m, s) ==
    LET b == Len(m.deferreds) + 1
        m1 == [m EXCEPT !.deferreds = Append(@, Deferred(Fn("body", s), "defer", 0, NoFn)),
                        !.scopes[s].bodyDeferred = b]
    IN  IF m.scopes[s].cancelled THEN Ok(m, Undefined)
        ELSE resolve(Settling(m1, s, "response"), m.scopes[s].deferred, Response)

\* res.on("end", ...)
onEnd(m, s) == resolve(m, m.scopes[s].bodyDeferred, Undefined)

\* res.on("close", ...)
onResClose(m, s) == reject(m, m.scopes[s].bodyDeferred, AbortError, FALSE)

\* request(options) over http: the Deferred with its canceller, and
\* options.timeout && deferred.timeout(options.timeout).
request(m, ms) ==
    LET d == Len(m.deferreds) + 1
        s == Len(m.scopes) + 1
        m1 == [m EXCEPT !.deferreds = Append(@, Deferred(Fn("request", s), "defer", 0, NoFn)),
                        !.scopes = Append(@, RequestScope(d))]
    IN  IF Truthy(ms)
        THEN One({ IF Threw(r) THEN r ELSE Ok(r.m, PromiseOf(d))
                   : r \in {timeout(m1, d, ms)} })
        ELSE Ok(m1, PromiseOf(d))

\* ------------------------------------------------------------------ state
Machine == [deferreds |-> deferreds, held |-> held, log |-> log,
            cancelLog |-> cancelLog, timers |-> timers, emitted |-> emitted,
            scopes |-> scopes]

\* The last top-level call: op on Deferred d with argument arg, the heap before it
\* (pre) with the numbers of canceller runs, timers set and errors emitted before
\* it, and, once it has ended, the exception it threw and the value it returned.
Call(op, d, arg) ==
    [ op |-> op, d |-> d, arg |-> arg, exc |-> NoExc, ret |-> Undefined,
      pre |-> deferreds, preCancels |-> Len(cancelLog),
      preTimers |-> Len(timers), preEmitted |-> Len(emitted), preLog |-> Len(log) ]

\* The variables after a top-level call with outcome r.  A promise the call returned
\* is held by the program from then on.
Commit(outcome, record) ==
    \E r \in {outcome} :
    /\ deferreds' = r.m.deferreds
    /\ held' = IF r.ret.t = "promise" THEN held \cup {r.ret.n} ELSE held
    /\ log' = r.m.log
    /\ cancelLog' = r.m.cancelLog
    /\ timers' = r.m.timers
    /\ emitted' = r.m.emitted
    /\ scopes' = r.m.scopes
    /\ lastCall' = [record EXCEPT !.exc = r.exc, !.ret = r.ret]

Init ==
    /\ deferreds = <<>>
    /\ held = {}
    /\ log = <<>>
    /\ cancelLog = <<>>
    /\ timers = <<>>
    /\ emitted = <<>>
    /\ scopes = <<>>
    /\ lastCall = [ op |-> "init", d |-> 0, arg |-> Undefined, exc |-> NoExc,
                    ret |-> Undefined, pre |-> <<>>, preCancels |-> 0,
                    preTimers |-> 0, preEmitted |-> 0, preLog |-> 0 ]
    /\ calls = 0

Ids == 1..Len(deferreds)
\* The Deferreds made by defer or execute; a Deferred made by then is reachable
\* through its promise alone.
Roots == {d \in Ids : deferreds[d].parent = 0}
DeferRoots == {d \in Roots : deferreds[d].origin = "defer"}
ExecuteRoots == {d \in Roots : deferreds[d].origin = "execute"}

Cancellers == {NoCanceller, Fn("undef", 0), Fn("err", 0), Fn("settle", 0), Fn("throw", 0)}
AsyncFunctions == [cb : {"none", "error", "one", "many"}, throws : BOOLEAN]
\* The values and errors are fresh on every call: the library never looks into them.
Values == {Num(calls + 1)}
Errors == {[t |-> "obj", n |-> calls + 1, e |-> "error"]}
Reasons == {Reason}

\* The callbacks a then call on Deferred d passes: a callback that increments, one
\* that throws, one that returns the promise of a Deferred of the program, one that
\* calls then on d again, and one that cancels the promise this then call returns or
\* the one the next then call returns.
Callbacks(d) ==
    {Fn("thenOn", d)}
        \cup {Fn("retP", q) : q \in Roots}
        \cup {Fn("cancelP", q) : q \in (Len(deferreds) + 1)..(Len(deferreds) + 2)}
Listeners(d) ==
    {<<Inc, NoFn>>, <<NoFn, Inc>>, <<Thrower, Thrower>>}
        \cup {<<f, f>> : f \in Callbacks(d)}

\* defer(canceller).  The program makes its (at most two) Deferreds first: defer
\* touches no other Deferred, so a later defer commutes with every other call.
CallDefer(canceller) ==
    /\ Len(deferreds) < MaxDeferreds
    /\ Cardinality(Roots) < 2 /\ Roots = Ids /\ ExecuteRoots = {} /\ calls = 0
    /\ Commit(Ok([Machine EXCEPT !.deferreds = Append(@, Deferred(canceller, "defer", 0, NoFn))],
                 PromiseOf(Len(deferreds) + 1)), Call("defer", 0, Undefined))
    /\ UNCHANGED calls

\* execute(asyncFunction), in a program that makes no other Deferred itself.
CallExecute(asyncFunction) ==
    /\ deferreds = <<>>
    /\ Commit(execute(Machine, asyncFunction), Call("execute", 0, Undefined))
    /\ UNCHANGED calls

\* The asyncFunction given to execute calls the completion callback later on.
CallCompletion(d, kind) ==
    /\ calls < MaxCalls
    /\ calls' = calls + 1
    /\ Commit(Completion(Machine, d, kind), Call("completion", d, Undefined))

\* deferred.resolve(value)
CallResolve(d, value) ==
    /\ calls < MaxCalls
    /\ calls' = calls + 1
    /\ Commit(resolve(Machine, d, value), Call("resolve", d, value))

\* deferred.reject(error)
CallReject(d, error) ==
    /\ calls < MaxCalls
    /\ calls' = calls + 1
    /\ Commit(reject(Machine, d, error, FALSE), Call("reject", d, error))

\* promise.then(resolvedCallback, rejectCallback)
CallThen(d, l) ==
    /\ calls < MaxCalls
    /\ Len(deferreds) < MaxDeferreds
    /\ calls' = calls + 1
    /\ Commit(then(Machine, d, l[1], l[2], NoFn), Call("then", d, Undefined))

\* promise.cancel(reason), where the promise has one
CallCancel(d, reason) ==
    /\ calls < MaxCalls
    /\ deferreds[d].promiseCancel
    /\ calls' = calls + 1
    /\ Commit(cancel(Machine, d, reason), Call("cancel", d, reason))

\* The oldest timer fires: the timers reject sets have one delay, so they fire in
\* the order they were set.
TimerFires ==
    /\ calls < MaxCalls
    /\ timers # <<>>
    /\ calls' = calls + 1
    /\ Commit(Ok(UnhandledCheck([Machine EXCEPT !.timers = Tail(@)], Head(timers)), Undefined),
              Call("timer", Head(timers).d, Undefined))

Next ==
    \/ \E canceller \in Cancellers : CallDefer(canceller)
    \/ \E asyncFunction \in AsyncFunctions : CallExecute(asyncFunction)
    \/ \E d \in ExecuteRoots, kind \in {"error", "one", "many"} : CallCompletion(d, kind)
    \/ \E d \in DeferRoots, value \in Values : CallResolve(d, value)
    \/ \E d \in DeferRoots, error \in Errors : CallReject(d, error)
    \/ \E d \in held : \E l \in Listeners(d) : CallThen(d, l)
    \/ \E d \in held, reason \in Reasons : CallCancel(d, reason)
    \/ TimerFires

Spec == Init /\ [][Next]_vars

\* ------------------------------------------------------- timeout: the program
\* One Deferred, its timeout, a few listeners, and the timers: a program that arms a
\* timeout and settles, cancels or leaves the Deferred.
\* Top-level calls the program makes (timers fire besides).
TimeoutCalls == 3
\* Deferreds the program's then calls may allocate, the root included.
TimeoutDeferreds == 3

\* A top-level call of the program within a budget of calls.
Turn(budget, outcome, record) ==
    /\ calls < budget
    /\ calls' = calls + 1
    /\ Commit(outcome, record)

\* The sequence list without its element at index i.
RemoveAt(list, i) == SubSeq(list, 1, i - 1) \o SubSeq(list, i + 1, Len(list))

\* The timers that may fire next.  The timers reject sets have one delay
\* (unhandledTimeout) and fire in the order they were set; the delay of a timeout is
\* the program's choice, so its timer fires before or after any of those.
Fireable ==
    {i \in 1..Len(timers) :
        timers[i].kind = "timeout"
            \/ \A j \in 1..(i - 1) : timers[j].kind # "unhandled"}

Delays == {Undefined, Num(0), Num(1)}
TimeoutListeners == {<<Inc, NoFn>>, <<NoFn, Inc>>} \cup
                        {<<f, f>> : f \in {Fn("cancelP", Len(deferreds) + 1)}}

DeferTimed(canceller) ==
    /\ deferreds = <<>>
    /\ Commit(Ok([Machine EXCEPT !.deferreds = Append(@, Deferred(canceller, "defer", 0, NoFn))],
                 PromiseOf(1)), Call("defer", 0, Undefined))
    /\ UNCHANGED calls

\* deferred.timeout(ms) and deferred.timeout()
CallTimeout(d, ms) ==
    Turn(TimeoutCalls, timeout(Machine, d, ms), Call("timeout", d, ms))

ThenTimed(d, l) ==
    /\ Len(deferreds) < TimeoutDeferreds
    /\ Turn(TimeoutCalls, then(Machine, d, l[1], l[2], NoFn), Call("then", d, Undefined))

ResolveTimed(d, value) ==
    Turn(TimeoutCalls, resolve(Machine, d, value), Call("resolve", d, value))

RejectTimed(d, error) ==
    Turn(TimeoutCalls, reject(Machine, d, error, FALSE), Call("reject", d, error))

CancelTimed(d, reason) ==
    /\ deferreds[d].promiseCancel
    /\ Turn(TimeoutCalls, cancel(Machine, d, reason), Call("cancel", d, reason))

\* The event loop runs the callback of a timer: each timer fires once.
FireTimer(i) ==
    /\ LET timer == timers[i]
           m == [Machine EXCEPT !.timers = RemoveAt(@, i)]
       IN  IF timer.kind = "timeout"
           THEN Commit(TimeoutCheck(m, timer.d), Call("timeoutFires", timer.d, Undefined))
           ELSE Commit(Ok(UnhandledCheck(m, timer), Undefined),
                       Call("timer", timer.d, Undefined))
    /\ UNCHANGED calls

Fire == \E i \in Fireable : FireTimer(i)

NextTimeout ==
    \/ \E canceller \in Cancellers : DeferTimed(canceller)
    \/ \E d \in DeferRoots, ms \in Delays : CallTimeout(d, ms)
    \/ \E d \in held : \E l \in TimeoutListeners : ThenTimed(d, l)
    \/ \E d \in DeferRoots, value \in Values : ResolveTimed(d, value)
    \/ \E d \in DeferRoots, error \in Errors : RejectTimed(d, error)
    \/ \E d \in held, reason \in Reasons : CancelTimed(d, reason)
    \/ Fire

\* setTimeout runs every callback it was given: a timer that is set fires.
SpecTimeout == Init /\ [][NextTimeout]_vars /\ WF_vars(Fire)

\* ------------------------------------------- unhandled rejections: the program
\* One Deferred without canceller, then chains on it, and the timers reject sets.
\* Top-level calls the program makes (timers fire besides).
GraceCalls == 4
\* Deferreds the program's then calls may allocate, the root included.
GraceDeferreds == 3

GraceListeners == {<<Inc, NoFn>>, <<NoFn, Inc>>, <<Thrower, Thrower>>}

ThenGrace(d, l) ==
    /\ Len(deferreds) < GraceDeferreds
    /\ Turn(GraceCalls, then(Machine, d, l[1], l[2], NoFn), Call("then", d, Undefined))

ResolveGrace(d, value) ==
    Turn(GraceCalls, resolve(Machine, d, value), Call("resolve", d, value))

RejectGrace(d, error) ==
    Turn(GraceCalls, reject(Machine, d, error, FALSE), Call("reject", d, error))

NextGrace ==
    \/ DeferTimed(NoCanceller)
    \/ \E d \in held : \E l \in GraceListeners : ThenGrace(d, l)
    \/ \E d \in DeferRoots, value \in Values : ResolveGrace(d, value)
    \/ \E d \in DeferRoots, error \in Errors : RejectGrace(d, error)
    \/ Fire

SpecGrace == Init /\ [][NextGrace]_vars

\* ------------------------------------------------------- progress: the program
\* One Deferred, listeners with progress callbacks, progress calls and a settlement.
\* Top-level calls the program makes.
ProgressCalls == 4
\* Deferreds the program's then calls may allocate, the root included.
ProgressDeferreds == 3

\* function(update){ seen.push(update); }
Note == Fn("note", 0)
\* The callbacks of a then call on d: a progress callback alone; settlement
\* callbacks that send a progress update on d, with a progress callback; a progress
\* callback that registers another listener on d; no progress callback.
ProgressListeners(d) ==
    { <<NoFn, NoFn, Note>>,
      <<Fn("progress", d), Fn("progress", d), Note>>,
      <<NoFn, NoFn, Fn("watch", d)>>,
      <<Inc, NoFn, NoFn>> }

ThenProgress(d, l) ==
    /\ Len(deferreds) < ProgressDeferreds
    /\ Turn(ProgressCalls, then(Machine, d, l[1], l[2], l[3]), Call("then", d, Undefined))

\* deferred.progress(update)
CallProgress(d, update) ==
    Turn(ProgressCalls, progress(Machine, d, update), Call("progress", d, update))

ResolveProgress(d, value) ==
    Turn(ProgressCalls, resolve(Machine, d, value), Call("resolve", d, value))

RejectProgress(d, error) ==
    Turn(ProgressCalls, reject(Machine, d, error, FALSE), Call("reject", d, error))

NextProgress ==
    \/ DeferTimed(NoCanceller)
    \/ \E d \in DeferRoots : \E l \in ProgressListeners(d) : ThenProgress(d, l)
    \/ \E d \in DeferRoots, update \in Values : CallProgress(d, update)
    \/ \E d \in DeferRoots, value \in Values : ResolveProgress(d, value)
    \/ \E d \in DeferRoots, error \in Errors : RejectProgress(d, error)

SpecProgress == Init /\ [][NextProgress]_vars

\* --------------------------------------------- progress broadcast: the program
\* One Deferred; the progress callbacks registered on its promise and on the
\* promises derived from it note the update, register another listener on the
\* Deferred, throw, or settle the Deferred.
\* Top-level calls the program makes.
BroadcastCalls == 4
\* Deferreds the program's top-level then calls may allocate, the root included.
BroadcastDeferreds == 3

\* The progress callbacks of the listeners.
BroadcastCallbacks ==
    {Note, Thrower} \cup {Fn("watch", d) : d \in DeferRoots}
                    \cup {Fn("resolve", d) : d \in DeferRoots}

ThenBroadcast(d, progressCallback) ==
    /\ Len(deferreds) < BroadcastDeferreds
    /\ Turn(BroadcastCalls, then(Machine, d, NoFn, NoFn, progressCallback),
            Call("then", d, Undefined))

\* deferred.progress(update)
CallBroadcast(d, update) ==
    Turn(BroadcastCalls, progress(Machine, d, update), Call("progress", d, update))

ResolveBroadcast(d, value) ==
    Turn(BroadcastCalls, resolve(Machine, d, value), Call("resolve", d, value))

NextBroadcast ==
    \/ DeferTimed(NoCanceller)
    \/ \E d \in held : \E progressCallback \in BroadcastCallbacks :
          ThenBroadcast(d, progressCallback)
    \/ \E d \in DeferRoots, update \in Values : CallBroadcast(d, update)
    \/ \E d \in DeferRoots, value \in Values : ResolveBroadcast(d, value)

SpecBroadcast == Init /\ [][NextBroadcast]_vars

\* ------------------------------------------------------------ all: the program
\* Deferreds of the program, settled or pending, given to one call of all together
\* with plain values; the program settles them and cancels the promises it holds.
\* Top-level calls the program makes, the call of all included.
AllCalls == 4
\* The longest array given to all; the program makes no more Deferreds than that.
AllInputs == 2

\* var expected = {};
Expected == Obj("expected")
\* The elements of the array: promises of the program's Deferreds, and a value
\* that is no promise.
Inputs == {PromiseOf(d) : d \in DeferRoots} \cup {Expected}
\* The arrays given to all: the promise of every Deferred the program made, in the
\* order they were made, with values that are no promises before, between and
\* after them.
Arrays ==
    {array \in UNION {[1..n -> Inputs] : n \in 0..AllInputs} :
        /\ \A d \in DeferRoots : \E k \in 1..Len(array) : array[k] = PromiseOf(d)
        /\ \A j, k \in 1..Len(array) :
              (j < k /\ array[j].t = "promise" /\ array[k].t = "promise")
                  => array[j].n < array[k].n}

\* defer(canceller): the Deferreds of a program have cancellers of one kind.
DeferAll(canceller) ==
    /\ Cardinality(DeferRoots) < AllInputs /\ Ids = DeferRoots /\ calls = 0
    /\ \A d \in DeferRoots : deferreds[d].canceller = canceller
    /\ Commit(Ok([Machine EXCEPT !.deferreds = Append(@, Deferred(canceller, "defer", 0, NoFn))],
                 PromiseOf(Len(deferreds) + 1)), Call("defer", 0, Undefined))
    /\ UNCHANGED calls

\* all(array) of the newer module, once in a program
CallAll(array) ==
    /\ Ids = DeferRoots
    /\ Turn(AllCalls, all(Machine, array), Call("all", 0, ArrayOf(array)))

\* all(array) of the older module, once in a program
CallAllOlder(array) ==
    /\ Ids = DeferRoots
    /\ Turn(AllCalls, allOlder(Machine, array), Call("all", 0, ArrayOf(array)))

ResolveAll(d, value) ==
    Turn(AllCalls, resolve(Machine, d, value), Call("resolve", d, value))

RejectAll(d, error) ==
    Turn(AllCalls, reject(Machine, d, error, FALSE), Call("reject", d, error))

\* promise.cancel(reason) on the promise all returned
CancelAll(d, reason) ==
    /\ d \notin DeferRoots
    /\ deferreds[d].promiseCancel
    /\ Turn(AllCalls, cancel(Machine, d, reason), Call("cancel", d, reason))

NextAll ==
    \/ \E canceller \in Cancellers : DeferAll(canceller)
    \/ \E array \in Arrays : CallAll(array)
    \/ \E array \in Arrays : CallAllOlder(array)
    \/ \E d \in DeferRoots, value \in Values : ResolveAll(d, value)
    \/ \E d \in DeferRoots, error \in Errors : RejectAll(d, error)
    \/ \E d \in held, reason \in Reasons : CancelAll(d, reason)

SpecAll == Init /\ [][NextAll]_vars

\* ---------------------------------------------------------- first: the program
\* Deferreds of the program, settled or pending, given to one call of first together
\* with plain values; the program settles them and cancels the aggregate.
\* Top-level calls the program makes, the call of first included.
FirstCalls == 4
\* The longest array given to first; the program makes no more Deferreds than that.
FirstInputs == 2

\* The arrays given to first: as for all.
FirstArrays ==
    {array \in UNION {[1..n -> Inputs] : n \in 0..FirstInputs} :
        /\ \A d \in DeferRoots : \E k \in 1..Len(array) : array[k] = PromiseOf(d)
        /\ \A j, k \in 1..Len(array) :
              (j < k /\ array[j].t = "promise" /\ array[k].t = "promise")
                  => array[j].n < array[k].n}

DeferFirst(canceller) ==
    /\ Cardinality(DeferRoots) < FirstInputs /\ Ids = DeferRoots /\ calls = 0
    /\ \A d \in DeferRoots : deferreds[d].canceller = canceller
    /\ Commit(Ok([Machine EXCEPT !.deferreds = Append(@, Deferred(canceller, "defer", 0, NoFn))],
                 PromiseOf(Len(deferreds) + 1)), Call("defer", 0, Undefined))
    /\ UNCHANGED calls

\* first(array), once in a program
CallFirst(array) ==
    /\ Ids = DeferRoots
    /\ Turn(FirstCalls, first(Machine, array), Call("first", 0, ArrayOf(array)))

ResolveFirst(d, value) ==
    Turn(FirstCalls, resolve(Machine, d, value), Call("resolve", d, value))

RejectFirst(d, error) ==
    Turn(FirstCalls, reject(Machine, d, error, FALSE), Call("reject", d, error))

\* promise.cancel(reason) on the promise first returned
CancelFirst(d, reason) ==
    /\ d \notin DeferRoots
    /\ deferreds[d].promiseCancel
    /\ Turn(FirstCalls, cancel(Machine, d, reason), Call("cancel", d, reason))

NextFirst ==
    \/ \E canceller \in Cancellers : DeferFirst(canceller)
    \/ \E array \in FirstArrays : CallFirst(array)
    \/ \E d \in DeferRoots, value \in Values : ResolveFirst(d, value)
    \/ \E d \in DeferRoots, error \in Errors : RejectFirst(d, error)
    \/ \E d \in held, reason \in Reasons : CancelFirst(d, reason)

SpecFirst == Init /\ [][NextFirst]_vars

\* ------------------------------------------------------------ seq: the program
\* One call of seq with actions that return a value, throw, or return the promise
\* of a Deferred of the program, which the program settles before or after; the
\* program cancels the aggregate.
\* Top-level calls the program makes, the call of seq included.
SeqCalls == 4
\* The longest array of actions given to seq.
SeqActions == 2
\* Deferreds the program makes with defer.
SeqRoots == 1

\* The actions: function(v){ return v + 1; }, function(v){ throw expected; } and
\* function(v){ return deferred.promise; }.
Actions == {Inc, Thrower} \cup {Fn("retP", q) : q \in DeferRoots}
ActionArrays == UNION {[1..n -> Actions] : n \in 0..SeqActions}

DeferSeq ==
    /\ Cardinality(DeferRoots) < SeqRoots /\ Ids = DeferRoots /\ calls = 0
    /\ Commit(Ok([Machine EXCEPT !.deferreds = Append(@, Deferred(NoCanceller, "defer", 0, NoFn))],
                 PromiseOf(Len(deferreds) + 1)), Call("defer", 0, Undefined))
    /\ UNCHANGED calls

\* seq(array, 1), once in a program
CallSeq(array) ==
    /\ Ids = DeferRoots
    /\ Turn(SeqCalls, seq(Machine, array, Num(1)), Call("seq", 0, Num(1)))

ResolveSeq(d, value) ==
    Turn(SeqCalls, resolve(Machine, d, value), Call("resolve", d, value))

RejectSeq(d, error) ==
    Turn(SeqCalls, reject(Machine, d, error, FALSE), Call("reject", d, error))

\* promise.cancel(reason) on the promise seq returned
CancelSeq(d, reason) ==
    /\ d \notin DeferRoots
    /\ deferreds[d].promiseCancel
    /\ Turn(SeqCalls, cancel(Machine, d, reason), Call("cancel", d, reason))

NextSeq ==
    \/ DeferSeq
    \/ \E array \in ActionArrays : CallSeq(array)
    \/ \E d \in DeferRoots, value \in Values : ResolveSeq(d, value)
    \/ \E d \in DeferRoots, error \in Errors : RejectSeq(d, error)
    \/ \E d \in held, reason \in Reasons : CancelSeq(d, reason)

SpecSeq == Init /\ [][NextSeq]_vars

\* ---------------------------------------------------------- delay: the program
\* Calls of delay, then calls on the promises, cancels, and the timers firing.
\* Top-level calls the program makes (timers fire besides).
DelayCalls == 4
\* Deferreds the program's delay and then calls may allocate.
DelayDeferreds == 3

DelayListeners == {<<Inc, NoFn>>, <<NoFn, Inc>>}

\* delay(ms)
CallDelay(ms) ==
    /\ Len(deferreds) < DelayDeferreds
    /\ Turn(DelayCalls, delay(Machine, ms), Call("delay", 0, ms))

ThenDelay(d, l) ==
    /\ Len(deferreds) < DelayDeferreds
    /\ Turn(DelayCalls, then(Machine, d, l[1], l[2], NoFn), Call("then", d, Undefined))

CancelDelay(d, reason) ==
    /\ deferreds[d].promiseCancel
    /\ Turn(DelayCalls, cancel(Machine, d, reason), Call("cancel", d, reason))

\* The event loop runs the callback of a timer of delay: the delay is the
\* program's choice, so the timer fires before or after any other.
FireDelay(i) ==
    /\ timers[i].kind = "delay"
    /\ Commit(DelayCheck([Machine EXCEPT !.timers = RemoveAt(@, i)], timers[i].s),
              Call("delayFires", timers[i].d, Undefined))
    /\ UNCHANGED calls

\* The event loop runs the callback of a timer reject set.
FireUnhandled(i) ==
    /\ timers[i].kind = "unhandled"
    /\ \A j \in 1..(i - 1) : timers[j].kind # "unhandled"
    /\ FireTimer(i)

NextDelay ==
    \/ \E ms \in {Num(0)} : CallDelay(ms)
    \/ \E d \in held : \E l \in DelayListeners : ThenDelay(d, l)
    \/ \E d \in held, reason \in Reasons : CancelDelay(d, reason)
    \/ \E i \in 1..Len(timers) : FireDelay(i)
    \/ \E i \in 1..Len(timers) : FireUnhandled(i)

SpecDelay == Init /\ [][NextDelay]_vars

\* ------------------------------------------- execute, convertAsync: the program
\* Top-level calls the program makes.
ExecuteCalls == 2
\* Deferreds execute, the wrappers and then may allocate.
ExecuteDeferreds == 2
\* Arguments the program passes to a wrapper at most.
WrapperArguments == 1

\* What an asyncFunction passes to the completion callback: the error, then the
\* success values.
CallbackArguments ==
    {<<>>} \cup
    {<<error>> \o results :
        error \in {Null, Num(0), Obj("failure")},
        results \in {<<>>, <<Num(1)>>, <<Num(2), Num(1)>>}}

\* A function taking a completion callback: it calls it before it returns
\* (cb = "call") or keeps it (cb = "none"), and then throws or returns.  length is
\* the number of parameters it declares, declared whether the callback is the last
\* of them.
NodeStyleFns ==
    {[cb |-> "none", arguments |-> <<>>, throws |-> t, length |-> 1, declared |-> dc]
        : t \in BOOLEAN, dc \in BOOLEAN} \cup
    {[cb |-> "call", arguments |-> a, throws |-> t, length |-> 1, declared |-> dc]
        : a \in CallbackArguments, t \in BOOLEAN, dc \in BOOLEAN}

\* The functions the program converts.
ConvertedFns ==
    {f \in NodeStyleFns : f.arguments \in {<<>>, <<Null, Num(1)>>, <<Obj("failure")>>}}

ExecuteListeners == {<<Inc, NoFn>>, <<NoFn, Inc>>}
CallbackRoots == {d \in Roots : deferreds[d].origin \in {"execute", "convertAsync"}}

\* execute(asyncFunction)
CallExecuteWith(asyncFunction) ==
    /\ asyncFunction.declared
    /\ Len(deferreds) < ExecuteDeferreds
    /\ Turn(ExecuteCalls, execute(Machine, asyncFunction), Call("execute", 0, asyncFunction))

\* convertAsync(asyncFunction, callbackNotDeclared), in a program that converts
\* one function.
CallConvertAsync(asyncFunction, callbackNotDeclared) ==
    /\ scopes = <<>>
    /\ Commit(convertAsync(Machine, asyncFunction, callbackNotDeclared),
              Call("convertAsync", 0, asyncFunction))
    /\ UNCHANGED calls

\* wrapper(a1, ..., an)
CallConverted(s, n) ==
    /\ Len(deferreds) < ExecuteDeferreds
    /\ Turn(ExecuteCalls, converted(Machine, s, n),
            Call("converted", 0, scopes[s].asyncFunction))

\* The asyncFunction calls the completion callback it kept, in a later turn.
CallCallback(d, arguments) ==
    Turn(ExecuteCalls, completionCallback(Machine, d, arguments),
         Call("callback", d, ArrayOf(arguments)))

ThenExecute(d, l) ==
    /\ Len(deferreds) < ExecuteDeferreds
    /\ Turn(ExecuteCalls, then(Machine, d, l[1], l[2], NoFn), Call("then", d, Undefined))

NextExecute ==
    \/ \E asyncFunction \in NodeStyleFns : CallExecuteWith(asyncFunction)
    \/ \E asyncFunction \in ConvertedFns, callbackNotDeclared \in BOOLEAN :
          CallConvertAsync(asyncFunction, callbackNotDeclared)
    \/ \E s \in 1..Len(scopes), n \in 0..WrapperArguments : CallConverted(s, n)
    \/ \E d \in CallbackRoots, arguments \in CallbackArguments : CallCallback(d, arguments)
    \/ \E d \in held : \E l \in ExecuteListeners : ThenExecute(d, l)
    \/ \E i \in 1..Len(timers) : FireUnhandled(i)

SpecExecute == Init /\ [][NextExecute]_vars

\* ------------------------------------------------------- whenCall: the program
\* Top-level calls the program makes: whenCall, resolve, reject.
WhenCalls == 2
\* Deferreds the program makes with defer.
WhenRoots == 1

\* initialCallback: it returns a value, returns the promise of a Deferred of the
\* program, or throws.
InitialCallbacks ==
    {Fn("ret", Num(1)), Fn("ret", Num(0)), Thrower}
        \cup {Fn("retP", d) : d \in DeferRoots}
\* resolvedCallback and rejectCallback
WhenCallbacks ==
    {<<Inc, Inc>>, <<Inc, NoFn>>, <<NoFn, Inc>>, <<Inc, Thrower>>, <<Thrower, Inc>>}

DeferWhen ==
    /\ Cardinality(DeferRoots) < WhenRoots /\ Ids = DeferRoots /\ calls = 0
    /\ Commit(Ok([Machine EXCEPT !.deferreds = Append(@, Deferred(NoCanceller, "defer", 0, NoFn))],
                 PromiseOf(Len(deferreds) + 1)), Call("defer", 0, Undefined))
    /\ UNCHANGED calls

\* whenCall(initialCallback, resolvedCallback, rejectCallback)
CallWhenCall(initialCallback, resolvedCallback, rejectCallback) ==
    Turn(WhenCalls,
         whenCall(Machine, initialCallback, resolvedCallback, rejectCallback, NoFn),
         Call("whenCall", 0, [initialCallback |-> initialCallback,
                              resolvedCallback |-> resolvedCallback,
                              rejectCallback |-> rejectCallback]))

ResolveWhen(d, value) ==
    Turn(WhenCalls, resolve(Machine, d, value), Call("resolve", d, value))

RejectWhen(d, error) ==
    Turn(WhenCalls, reject(Machine, d, error, FALSE), Call("reject", d, error))

NextWhen ==
    \/ DeferWhen
    \/ \E initialCallback \in InitialCallbacks :
          \E l \in WhenCallbacks : CallWhenCall(initialCallback, l[1], l[2])
    \/ \E d \in DeferRoots, value \in Values : ResolveWhen(d, value)
    \/ \E d \in DeferRoots, error \in {CustomError} : RejectWhen(d, error)
    \/ \E i \in 1..Len(timers) : FireUnhandled(i)

SpecWhen == Init /\ [][NextWhen]_vars

\* ------------------------------------------------- get, put, call: the program
\* Top-level calls the program makes.
PerformCalls == 3
\* Deferreds the program makes with defer.
PerformRoots == 1

\* The objects of the program, and the targets it passes: an object, a missing
\* target, or a promise it holds.
Objects == {TargetObj(s) : s \in 1..Len(scopes)}
Targets == Objects \cup {Undefined} \cup {PromiseOf(d) : d \in held}
\* The operations: get(target, p), put(target, p, v), call(target, p, args).
Operations ==
    {PropFn("get", p, Undefined) : p \in {"expected", "missing"}}
        \cup {PropFn("put", "put", Num(5))}
        \cup {PropFn("call", "method", args)
                : args \in {Undefined, ArrayOf(<<>>), ArrayOf(<<Num(1), Num(2)>>)}}
        \cup {PropFn("call", "missing", Undefined)}

\* The program makes its object: { expected: 7, method: function }.
NewObject(name) ==
    /\ scopes = <<>> /\ calls = 0
    /\ Commit(Ok([Machine EXCEPT !.scopes = Append(@,
                     ObjectScope([expected |-> Num(7), method |-> Method(name)]))],
                 TargetObj(1)), Call("object", 0, Undefined))
    /\ UNCHANGED calls

DeferPerform ==
    /\ Cardinality(DeferRoots) < PerformRoots /\ Ids = DeferRoots /\ calls = 0
    /\ Commit(Ok([Machine EXCEPT !.deferreds = Append(@, Deferred(NoCanceller, "defer", 0, NoFn))],
                 PromiseOf(Len(deferreds) + 1)), Call("defer", 0, Undefined))
    /\ UNCHANGED calls

\* get, put or call on target
CallPerform(target, op) ==
    Turn(PerformCalls, perform(Machine, target, op),
         Call(op.k, 0, [target |-> target, op |-> op]))

\* resolved(target)
CallResolved(target) ==
    Turn(PerformCalls, resolved(Machine, target), Call("resolved", 0, target))

ResolvePerform(d, value) ==
    Turn(PerformCalls, resolve(Machine, d, value), Call("resolve", d, value))

RejectPerform(d, error) ==
    Turn(PerformCalls, reject(Machine, d, error, FALSE), Call("reject", d, error))

NextPerform ==
    \/ \E name \in {"echo", "thrower"} : NewObject(name)
    \/ DeferPerform
    \/ \E target \in Targets, op \in Operations : CallPerform(target, op)
    \/ \E target \in Objects \cup {Undefined} : CallResolved(target)
    \/ \E d \in DeferRoots, value \in Objects \cup {Undefined} : ResolvePerform(d, value)
    \/ \E d \in DeferRoots, error \in {CustomError} : RejectPerform(d, error)
    \/ \E i \in 1..Len(timers) : FireUnhandled(i)

SpecPerform == Init /\ [][NextPerform]_vars

\* --------------------------------------------- awaited promises: the program
\* Two Deferreds, then calls whose callback returns the promise of one of them, and
\* a cancel of the promise then returned while it waits.
\* Top-level calls the program makes.
AwaitCalls == 4
\* Deferreds the program makes with defer.
AwaitRoots == 2

\* function(v){ return q.promise; } for a Deferred q of the program, and
\* function(v){ return v + 1; }
AwaitListeners == {<<Fn("retP", q), NoFn>> : q \in DeferRoots} \cup {<<Inc, NoFn>>}

DeferAwait(canceller) ==
    /\ Cardinality(DeferRoots) < AwaitRoots /\ Ids = DeferRoots /\ calls = 0
    /\ Commit(Ok([Machine EXCEPT !.deferreds = Append(@, Deferred(canceller, "defer", 0, NoFn))],
                 PromiseOf(Len(deferreds) + 1)), Call("defer", 0, Undefined))
    /\ UNCHANGED calls

\* promise.then(callback) on the promise of a Deferred of the program
ThenAwait(d, l) ==
    /\ d \in DeferRoots
    /\ Turn(AwaitCalls, then(Machine, d, l[1], l[2], NoFn), Call("then", d, Undefined))

ResolveAwait(d, value) ==
    Turn(AwaitCalls, resolve(Machine, d, value), Call("resolve", d, value))

RejectAwait(d, error) ==
    Turn(AwaitCalls, reject(Machine, d, error, FALSE), Call("reject", d, error))

\* promise.cancel(reason) on a promise then returned
CancelAwait(d, reason) ==
    /\ d \notin DeferRoots
    /\ deferreds[d].promiseCancel
    /\ Turn(AwaitCalls, cancel(Machine, d, reason), Call("cancel", d, reason))

NextAwait ==
    \/ \E canceller \in {NoCanceller, Fn("undef", 0)} : DeferAwait(canceller)
    \/ \E d \in held : \E l \in AwaitListeners : ThenAwait(d, l)
    \/ \E d \in DeferRoots, value \in Values : ResolveAwait(d, value)
    \/ \E d \in DeferRoots, error \in Errors : RejectAwait(d, error)
    \/ \E d \in held, reason \in Reasons : CancelAwait(d, reason)
    \/ \E i \in 1..Len(timers) : FireUnhandled(i)

SpecAwait == Init /\ [][NextAwait]_vars

\* ------------------------------------------------------ request: the program
\* One call of request over http, the events of its transport, the timeout, and a
\* client that listens on the response promise and cancels it or the body.
\* Top-level calls and events of the program (timers fire besides).
RequestCalls == 4
\* Deferreds of the program: the response, the body and those then makes.
RequestDeferreds == 3

\* options.timeout after normalisation: 0 (no timeout) or a delay.
RequestTimeouts == {Num(0), Num(1)}
RequestListeners == {<<Inc, Inc>>}
\* The scope of the one request of the program.
TheRequest == 1

\* request(options)
CallRequest(ms) ==
    /\ deferreds = <<>>
    /\ Commit(request(Machine, ms), Call("request", 0, ms))
    /\ UNCHANGED calls

\* request(...).then(callback, errback)
ThenRequest(d, l) ==
    /\ scopes # <<>> /\ d = scopes[TheRequest].deferred
    /\ Len(deferreds) < RequestDeferreds
    /\ Turn(RequestCalls, then(Machine, d, l[1], l[2], NoFn), Call("then", d, Undefined))

\* promise.cancel() on the promise request returned or on one derived from it
CancelRequest(d) ==
    /\ scopes # <<>> /\ d # scopes[TheRequest].bodyDeferred
    /\ deferreds[d].promiseCancel
    /\ Turn(RequestCalls, cancel(Machine, d, Undefined), Call("cancel", d, Undefined))

\* The client cancels the promise of the body: response.body.some(...).cancel()
CancelBody ==
    /\ scopes # <<>> /\ scopes[TheRequest].bodyDeferred # 0
    /\ Turn(RequestCalls, cancel(Machine, scopes[TheRequest].bodyDeferred, Undefined),
            Call("cancelBody", scopes[TheRequest].bodyDeferred, Undefined))

\* The heap once the transport has emitted event.
Emitted(event) == [Machine EXCEPT !.scopes[TheRequest].events = @ \cup {event}]

\* The transport emits "error" on req, at most once and not after "close".
EmitError(error) ==
    /\ scopes # <<>> /\ scopes[TheRequest].events \cap {"error", "close"} = {}
    /\ Turn(RequestCalls, onError(Emitted("error"), TheRequest, error),
            Call("error", scopes[TheRequest].deferred, error))

\* The transport emits "close" on req, once: it is the last event of req.
EmitClose ==
    /\ scopes # <<>> /\ "close" \notin scopes[TheRequest].events
    /\ Turn(RequestCalls, onClose(Emitted("close"), TheRequest),
            Call("close", scopes[TheRequest].deferred, Undefined))

\* The transport emits "response" on req, at most once and not after "close".
EmitResponse ==
    /\ scopes # <<>> /\ scopes[TheRequest].events \cap {"response", "close"} = {}
    /\ Turn(RequestCalls, onResponse(Emitted("response"), TheRequest),
            Call("response", scopes[TheRequest].deferred, Undefined))

\* The response emits "end", to the handler the response handler registered.
EmitEnd ==
    /\ scopes # <<>> /\ scopes[TheRequest].bodyDeferred # 0
    /\ scopes[TheRequest].events \cap {"end", "resClose"} = {}
    /\ Turn(RequestCalls, onEnd(Emitted("end"), TheRequest),
            Call("end", scopes[TheRequest].bodyDeferred, Undefined))

\* The response emits "close".
EmitResClose ==
    /\ scopes # <<>> /\ scopes[TheRequest].bodyDeferred # 0
    /\ "resClose" \notin scopes[TheRequest].events
    /\ Turn(RequestCalls, onResClose(Emitted("resClose"), TheRequest),
            Call("resClose", scopes[TheRequest].bodyDeferred, Undefined))

NextRequest ==
    \/ \E ms \in RequestTimeouts : CallRequest(ms)
    \/ \E d \in held : \E l \in RequestListeners : ThenRequest(d, l)
    \/ \E d \in held : CancelRequest(d)
    \/ CancelBody
    \/ \E error \in {CustomError} : EmitError(error)
    \/ EmitClose
    \/ EmitResponse
    \/ EmitEnd
    \/ EmitResClose
    \/ Fire

SpecRequest == Init /\ [][NextRequest]_vars

\* ------------------------------------------------------------------ claims
\* The notifications made for the listener whose then call made Deferred c.
Entries(c) == {i \in 1..Len(log) : log[i].dst = c}
\* The Deferreds made by then calls on d: its listeners, in registration order.
Children(d) == {c \in Ids : deferreds[c].parent = d}
RECURSIVE RootOf(_)
RootOf(d) == IF deferreds[d].parent = 0 THEN d ELSE RootOf(deferreds[d].parent)
\* What Inc returns for v.
IncOf(v) == IF v.t = "num" THEN Num(v.n + 1) ELSE Num(0)

\* C1: a resolve or a reject call on a Deferred that is already settled raises the
\* "already been resolved" fault, whichever of the two calls settled it.
C1_SettlingTwiceRaises ==
    (lastCall.op \in {"resolve", "reject"} /\ lastCall.pre[lastCall.d].fulfilled)
        => lastCall.exc = AlreadyResolved

\* C1's case: reject called on a Deferred that resolve had settled.
C1_Witness ==
    /\ lastCall.op = "reject"
    /\ lastCall.pre[lastCall.d].fulfilled
    /\ lastCall.pre[lastCall.d].outcome = "fulfilled"

\* C2: every notification of a listener goes through the callback that matches the
\* first outcome of its Deferred and carries the first result, also after a later
\* resolve or reject attempt that failed.
C2_OutcomeNeverChanges ==
    \A i \in 1..Len(log) :
        /\ (log[i].track = "error") = (deferreds[log[i].src].outcome = "rejected")
        /\ log[i].arg = deferreds[log[i].src].first

\* C3: between two calls, every listener registered on a settled Deferred has been
\* notified exactly once, and the listeners of one Deferred were notified in the
\* order of their registration.
C3_EachListenerOnceInOrder ==
    /\ \A d \in Ids : deferreds[d].fulfilled =>
            \A c \in Children(d) : Cardinality(Entries(c)) = 1
    /\ \A i, j \in 1..Len(log) :
            (i < j /\ log[i].src = log[j].src) => log[i].dst < log[j].dst

\* C4: a then call on a Deferred that is settled and drained returns after exactly
\* one notification of the new listener, made with the settled result; a then call on
\* any other Deferred appends the listener to the queue without notifying it; and no
\* listener is notified twice, or before a listener registered earlier on the same
\* Deferred.
C4_ThenDelivery ==
    /\ lastCall.op = "then" =>
          LET d == lastCall.d
              c == Len(lastCall.pre) + 1
          IN  /\ lastCall.exc = NoExc
              /\ lastCall.ret = PromiseOf(c)
              /\ IF lastCall.pre[d].fulfilled /\ lastCall.pre[d].drained
                 THEN /\ Cardinality(Entries(c)) = 1
                      /\ \A i \in Entries(c) :
                            log[i].src = d /\ log[i].arg = deferreds[d].first
                      /\ deferreds[d].waiting = <<>>
                 ELSE /\ Entries(c) = {}
                      /\ Len(deferreds[d].waiting) = Len(lastCall.pre[d].waiting) + 1
                      /\ deferreds[d].waiting[Len(deferreds[d].waiting)].deferred = c
    /\ \A c \in Ids : Cardinality(Entries(c)) <= 1
    /\ \A j \in 1..Len(log) : \A c \in Children(log[j].src) :
          c < log[j].dst => \E i \in 1..(j - 1) : log[i].dst = c

\* C4's case: then on a settled and drained Deferred has notified the new listener.
C4_Witness ==
    /\ lastCall.op = "then"
    /\ lastCall.pre[lastCall.d].fulfilled /\ lastCall.pre[lastCall.d].drained
    /\ Entries(Len(lastCall.pre) + 1) # {}

\* C5: between two calls, for every then hop on a rejected Deferred (the hop's own
\* promise not having been cancelled): a hop without reject-callback has had no
\* callback invoked and its promise is rejected with the same error; a hop whose
\* reject-callback returned normally has a promise fulfilled with the returned
\* value; a hop whose reject-callback threw, or returned the promise of a rejected
\* Deferred, has a rejected promise.
C5_RejectionPassesThrough ==
    \A c \in Ids :
        LET d == deferreds[c].parent
            l == deferreds[c].listener
        IN  (d # 0 /\ deferreds[d].outcome = "rejected" /\ ~deferreds[c].cancelled) =>
               CASE l.error = NoFn ->
                        /\ deferreds[c].outcome = "rejected"
                        /\ deferreds[c].first = deferreds[d].first
                        /\ \A i \in Entries(c) : log[i].fn = NoFn
                 [] l.error = Inc ->
                        /\ \A i \in Entries(c) :
                              log[i].fn = Inc /\ log[i].arg = deferreds[d].first
                        /\ deferreds[c].outcome = "fulfilled"
                        /\ deferreds[c].first = IncOf(deferreds[d].first)
                 [] l.error = Thrower ->
                        deferreds[c].outcome = "rejected" /\ deferreds[c].first = Thrown
                 [] l.error.k = "retP" ->
                        (deferreds[l.error.a].outcome = "rejected"
                            /\ deferreds[l.error.a].drained)
                        => deferreds[c].outcome = "rejected"
                 [] OTHER -> TRUE

\* C6: between two calls, for every then hop on a fulfilled Deferred (the hop's own
\* promise not having been cancelled): when the resolved-callback returned a value
\* that is no promise, the hop's promise is fulfilled with that value; when it
\* returned a promise, the hop's promise is pending while that promise is, and has its
\* outcome and result once it is settled.
C6_ThenTakesCallbackResult ==
    \A c \in Ids :
        LET d == deferreds[c].parent
            l == deferreds[c].listener
        IN  (d # 0 /\ deferreds[d].outcome = "fulfilled" /\ ~deferreds[c].cancelled) =>
               CASE l.resolved = Inc ->
                        /\ deferreds[c].outcome = "fulfilled"
                        /\ deferreds[c].first = IncOf(deferreds[d].first)
                 [] l.resolved.k = "retP" ->
                        LET q == l.resolved.a
                        IN  /\ deferreds[q].outcome = "pending"
                               => deferreds[c].outcome = "pending"
                            /\ deferreds[q].drained =>
                                  /\ deferreds[c].outcome = deferreds[q].outcome
                                  /\ deferreds[c].first = deferreds[q].first
                 [] OTHER -> TRUE

\* C7: a resolve or reject call on a pending Deferred returns normally and has
\* notified every listener of the Deferred, whatever the callbacks did; and the
\* promise of a listener whose callback threw (and that was not cancelled) is
\* rejected with the thrown value.
C7_FaultsBecomeRejections ==
    /\ (lastCall.op \in {"resolve", "reject"} /\ ~lastCall.pre[lastCall.d].fulfilled) =>
          /\ lastCall.exc = NoExc
          /\ \A c \in Children(lastCall.d) : Entries(c) # {}
    /\ \A i \in 1..Len(log) :
          (log[i].fn = Thrower /\ ~deferreds[log[i].dst].cancelled) =>
              /\ deferreds[log[i].dst].outcome = "rejected"
              /\ deferreds[log[i].dst].first = Thrown

\* The last call was cancel on a Deferred made by defer that was pending.
CancelledPendingRoot ==
    /\ lastCall.op = "cancel"
    /\ lastCall.d \in DeferRoots
    /\ ~lastCall.pre[lastCall.d].fulfilled
\* The runs of root's canceller during the last call.
CancellerRuns(root) ==
    {i \in (lastCall.preCancels + 1)..Len(cancelLog) : cancelLog[i].d = root}
\* That call ran root's canceller once, with the reason it was given.
CancellerRanWithReason(root) ==
    /\ Cardinality(CancellerRuns(root)) = 1
    /\ \A i \in CancellerRuns(root) : cancelLog[i].reason = lastCall.arg

\* C8 as claimed: cancelling a pending Deferred built with a canceller runs the
\* canceller with the given reason and leaves the Deferred rejected, with the value
\* the canceller returned, or with a CancelError when it returned none.
C8_CancelAlwaysRejects ==
    CancelledPendingRoot =>
        /\ CancellerRanWithReason(lastCall.d)
        /\ deferreds[lastCall.d].outcome = "rejected"
        /\ deferreds[lastCall.d].first =
              IF deferreds[lastCall.d].canceller.k = "err" THEN CustomError ELSE CancelError

\* C8 amended: cancelling a pending Deferred built with a canceller runs the
\* canceller with the given reason; if the canceller returns normally without
\* having settled the Deferred, the Deferred is rejected, with the value the
\* canceller returned, or with a CancelError when it returned none; if the canceller
\* settled the Deferred, that settlement stands; if it throws, cancel throws the same
\* and the Deferred stays pending.
C8_CancelRejectsUnlessCancellerSettled ==
    CancelledPendingRoot =>
        LET d == lastCall.d
            k == deferreds[d].canceller.k
        IN  /\ CancellerRanWithReason(d)
            /\ k = "undef" =>
                  deferreds[d].outcome = "rejected" /\ deferreds[d].first = CancelError
            /\ k = "err" =>
                  deferreds[d].outcome = "rejected" /\ deferreds[d].first = CustomError
            /\ k = "settle" =>
                  deferreds[d].outcome = "fulfilled" /\ deferreds[d].first = Num(0)
            /\ k = "throw" =>
                  lastCall.exc = Thrown /\ deferreds[d].outcome = "pending"

\* C8's case: a pending Deferred whose canceller returns an error was cancelled.
C8_Witness ==
    /\ CancelledPendingRoot
    /\ deferreds[lastCall.d].canceller.k = "err"
    /\ deferreds[lastCall.d].outcome = "rejected"

\* C9: a Deferred and its promise have a cancel exactly when the Deferred at the root
\* of their then chain was built with a canceller; the Deferred execute makes has
\* none, nor has any promise derived from it.
C9_CancelOnlyWithCanceller ==
    \A d \in Ids :
        LET root == RootOf(d)
            has == deferreds[root].origin = "defer" /\ deferreds[root].canceller # NoCanceller
        IN  /\ deferreds[d].cancel = has
            /\ deferreds[d].promiseCancel = has

\* C9's case: a promise derived through two then hops from a Deferred built with a
\* canceller.
C9_Witness ==
    \E c \in Ids :
        /\ deferreds[c].parent # 0
        /\ deferreds[deferreds[c].parent].parent # 0
        /\ deferreds[c].promiseCancel

\* The then hops from the root to d have no reject-callback.
RECURSIVE PassThrough(_)
PassThrough(d) ==
    deferreds[d].parent = 0
        \/ (deferreds[d].listener.error = NoFn /\ PassThrough(deferreds[d].parent))

\* C10: cancel(reason) on a promise derived, through then hops without
\* reject-callback, from a pending Deferred whose canceller returns normally and
\* leaves the Deferred alone, runs that canceller once with the same reason and
\* rejects the root; the derived promise is rejected with the root's error and each
\* of its listeners has been notified of that error.
C10_CancelFromDerivedPromise ==
    LET d == lastCall.d
        root == RootOf(d)
    IN  (/\ lastCall.op = "cancel"
         /\ deferreds[d].parent # 0
         /\ ~lastCall.pre[root].fulfilled
         /\ deferreds[root].canceller.k \in {"undef", "err"}
         /\ PassThrough(d)) =>
            /\ CancellerRanWithReason(root)
            /\ deferreds[root].outcome = "rejected"
            /\ deferreds[d].outcome = "rejected"
            /\ deferreds[d].first = deferreds[root].first
            /\ \A c \in Children(d) : \E i \in Entries(c) :
                  log[i].track = "error" /\ log[i].arg = deferreds[root].first

\* C11: a cancel call on a settled Deferred runs no canceller and changes nothing,
\* and a cancel call during which the canceller settled the Deferred does not attempt
\* to reject it: the Deferred keeps the canceller's settlement and reject, which
\* would have set isError, has not run on it.
C11_CancelAfterSettlement ==
    lastCall.op = "cancel" =>
        LET d == lastCall.d
        IN  /\ lastCall.pre[d].fulfilled =>
                  /\ deferreds = lastCall.pre
                  /\ Len(cancelLog) = lastCall.preCancels
                  /\ lastCall.exc = NoExc
            /\ (~lastCall.pre[d].fulfilled /\ deferreds[RootOf(d)].canceller.k = "settle"
                    /\ ~lastCall.pre[RootOf(d)].fulfilled) =>
                  /\ deferreds[RootOf(d)].outcome = "fulfilled"
                  /\ ~deferreds[RootOf(d)].isError
                  /\ deferreds[RootOf(d)].result = Num(0)

\* C11's case: cancel was called on a pending Deferred whose canceller resolved it.
C11_Witness ==
    /\ lastCall.op = "cancel"
    /\ ~lastCall.pre[lastCall.d].fulfilled
    /\ deferreds[lastCall.d].canceller.k = "settle"
    /\ deferreds[lastCall.d].outcome = "fulfilled"

\* The canceller of d ran with a TimeoutError as its reason.
CancelledByTimeout(d) ==
    \E i \in 1..Len(cancelLog) : cancelLog[i] = [d |-> d, reason |-> TimeoutError]
\* How a Deferred whose timer fired while it was pending has ended: without
\* canceller, rejected with a TimeoutError that every notification of its listeners
\* carried on the error track; with a canceller, cancelled with a TimeoutError as the
\* reason.
EndedByTimeout(d) ==
    LET k == deferreds[d].canceller.k
    IN  CASE k = "none" ->
                /\ deferreds[d].outcome = "rejected"
                /\ deferreds[d].first = TimeoutError
                /\ \A i \in 1..Len(log) :
                      log[i].src = d => log[i].track = "error" /\ log[i].arg = TimeoutError
          [] k = "undef" ->
                /\ CancelledByTimeout(d)
                /\ deferreds[d].outcome = "rejected" /\ deferreds[d].first = CancelError
          [] k = "err" ->
                /\ CancelledByTimeout(d)
                /\ deferreds[d].outcome = "rejected" /\ deferreds[d].first = CustomError
          [] OTHER -> CancelledByTimeout(d)
\* d is settled, by the program or by its timeout.
TimeoutEnded(d) ==
    IF deferreds[d].timedOut THEN EndedByTimeout(d) ELSE deferreds[d].fulfilled

LateTimerIsNoOp ==
    (lastCall.op = "timeoutFires" /\ lastCall.pre[lastCall.d].fulfilled) =>
        /\ deferreds = lastCall.pre
        /\ Len(cancelLog) = lastCall.preCancels
        /\ Len(timers) = lastCall.preTimers - 1
        /\ lastCall.exc = NoExc
\* A settlement attempt on a Deferred its timeout had rejected raised and changed
\* nothing.
LateSettlementIsNoOp ==
    (lastCall.op \in {"resolve", "reject"} /\ lastCall.pre[lastCall.d].timedOut
        /\ lastCall.pre[lastCall.d].outcome = "rejected") =>
            lastCall.exc = AlreadyResolved /\ deferreds = lastCall.pre
\* d is rejected, and its variables say so.
StaysRejected(d) ==
    /\ deferreds[d].outcome = "rejected"
    /\ deferreds[d].isError
    /\ deferreds[d].result = deferreds[d].first

C14_TimeoutArmsOnce ==
    lastCall.op = "timeout" =>
        LET d == lastCall.d
            armed == lastCall.pre[d].timeout
        IN  /\ armed # Undefined =>
                  /\ lastCall.ret = armed
                  /\ Len(timers) = lastCall.preTimers
                  /\ deferreds = lastCall.pre
            /\ (armed = Undefined /\ lastCall.arg = Undefined) =>
                  /\ lastCall.ret = Undefined
                  /\ Len(timers) = lastCall.preTimers
                  /\ deferreds = lastCall.pre
            /\ (armed = Undefined /\ lastCall.arg # Undefined) =>
                  /\ deferreds[d].timeout = lastCall.arg
                  /\ Len(timers) = lastCall.preTimers + 1

\* C14's case: timeout(0) was called on a Deferred armed with timeout(1).
C14_Witness ==
    /\ lastCall.op = "timeout"
    /\ lastCall.pre[lastCall.d].timeout = Num(1)
    /\ lastCall.arg = Num(0)
    /\ lastCall.ret = Num(1)

\* The rejection of d is the rejection that reached x: x is d, or a then hop
\* without reject-callback on a Deferred the rejection of d reached.
RECURSIVE PassesFrom(_, _)
PassesFrom(x, d) ==
    x = d \/ (x # 0 /\ deferreds[x].parent # 0 /\ deferreds[x].listener.error = NoFn
                 /\ PassesFrom(deferreds[x].parent, d))
\* A reject-callback was invoked with the rejection of d.
Observed(d) ==
    \E i \in 1..Len(log) :
        log[i].track = "error" /\ log[i].fn # NoFn /\ PassesFrom(log[i].src, d)
\* A hop with a reject-callback is attached where the rejection of d arrives.
ChainHandled(d) ==
    \E c \in Ids :
        /\ deferreds[c].parent # 0
        /\ deferreds[c].listener.error # NoFn
        /\ PassesFrom(deferreds[c].parent, d)
\* d was rejected by a reject call of its own, not by a rejection passed on to it.
OriginalRejection(d) ==
    /\ deferreds[d].outcome = "rejected"
    /\ deferreds[d].parent # 0 => \E i \in Entries(d) : log[i].fn # NoFn
\* A rejection was passed on to d by a hop without reject-callback.
PassedOn(d) ==
    deferreds[d].parent # 0 /\ \E i \in Entries(d) : log[i].fn = NoFn

\* C15: an error is emitted only by a timer that reject had set, one error per
\* timer, and it is the error of the rejection; the rejection of a Deferred is
\* emitted at most once, and never for a Deferred a rejection was passed on to by a
\* then hop, which has no timer either; and once every timer has fired, the
\* rejection of every Deferred rejected by a reject call of its own that no
\* reject-callback observed has been emitted exactly once.
C15_OneEventPerUnobservedRejection ==
    /\ Len(emitted) # lastCall.preEmitted =>
          /\ lastCall.op = "timer"
          /\ Len(emitted) = lastCall.preEmitted + 1
          /\ emitted[Len(emitted)] = deferreds[lastCall.d].first
    /\ \A d \in Ids :
          /\ deferreds[d].reports <= 1
          /\ PassedOn(d) =>
                /\ deferreds[d].reports = 0
                /\ \A i \in 1..Len(timers) : timers[i].d # d
          /\ (timers = <<>> /\ OriginalRejection(d) /\ ~Observed(d)) =>
                /\ deferreds[d].reports = 1
                /\ \E i \in 1..Len(emitted) : emitted[i] = deferreds[d].first

\* C15's case: the rejection of a Deferred passed down a then hop, nobody observed
\* it, and it has been emitted.
C15_Witness ==
    \E d, c \in Ids :
        /\ deferreds[d].reports = 1
        /\ deferreds[c].parent = d
        /\ PassedOn(c)
        /\ ~Observed(d)
        /\ timers = <<>>

\* C16: the timer of a rejected Deferred emits nothing when a listener with a
\* reject-callback is attached to that Deferred by the time it fires, whatever
\* other listeners are attached to it.
C16_ObservedRejectionNotEmitted ==
    (/\ lastCall.op = "timer"
     /\ \E c \in Children(lastCall.d) : deferreds[c].listener.error # NoFn) =>
        Len(emitted) = lastCall.preEmitted

\* The then calls made so far form one chain: no Deferred has two listeners.
SingleChain == \A d \in Ids : Cardinality(Children(d)) <= 1

\* C17: along a single then chain, the timer of a rejected Deferred emits nothing
\* when some hop of the chain the rejection travels down has a reject-callback
\* attached by the time it fires, whether the hop was attached before or after
\* the rejection.
C17_ChainObservedNotEmitted ==
    (lastCall.op = "timer" /\ SingleChain /\ ChainHandled(lastCall.d)) =>
        Len(emitted) = lastCall.preEmitted

\* The progress callbacks the last call invoked for listeners of d.
ProgressEntries(d) ==
    {i \in (lastCall.preLog + 1)..Len(log) : log[i].track = "progress" /\ log[i].src = d}

\* C18: a progress call on a pending Deferred invokes the progress callback of every
\* listener registered before the call exactly once, with the update, in the order
\* of registration; and no progress callback of a Deferred is invoked after a
\* listener of that Deferred has been notified of its settlement.
C18_ProgressOnlyWhilePending ==
    /\ (lastCall.op = "progress" /\ ~lastCall.pre[lastCall.d].fulfilled) =>
          LET d == lastCall.d
              waiting == lastCall.pre[d].waiting
          IN  /\ \A k \in 1..Len(waiting) :
                    waiting[k].progress # NoFn =>
                        Cardinality({i \in ProgressEntries(d) :
                                        /\ log[i].dst = waiting[k].deferred
                                        /\ log[i].arg = lastCall.arg}) = 1
              /\ \A i, j \in ProgressEntries(d) : i < j => log[i].dst < log[j].dst
    /\ \A i, j \in 1..Len(log) :
          (i < j /\ log[i].src = log[j].src /\ log[i].track \in {"resolved", "error"})
              => log[j].track # "progress"

\* The aggregates made by all that has closure variables: the ids of the calls.
Aggregates == 1..Len(scopes)
\* An input of all has fulfilled: a value that is no promise counts as fulfilled.
InputFulfilled(v) == v.t = "promise" => deferreds[v.n].outcome = "fulfilled"
\* The value an input of all fulfilled with.
InputValue(v) == IF v.t = "promise" THEN deferreds[v.n].first ELSE v
\* No settlement was attempted on a settled input: its outcome is as it was.
InputKept(v) == v.t = "promise" => (deferreds[v.n].isError <=> deferreds[v.n].outcome = "rejected")

\* C19: the aggregate of all is fulfilled only when every input has fulfilled, and
\* then with the sequence that holds at every index the value of the input at that
\* index, whatever the order the inputs settled in; a value that is no promise
\* counts as fulfilled; once every input has fulfilled the aggregate is fulfilled,
\* unless it was cancelled before; all of no inputs returns a promise fulfilled
\* with the empty sequence.
C19_AllFulfilsInInputOrder ==
    /\ \A s \in Aggregates :
          LET agg == deferreds[scopes[s].deferred]
              array == scopes[s].array
          IN  /\ agg.outcome = "fulfilled" =>
                    /\ \A k \in 1..Len(array) : InputFulfilled(array[k])
                    /\ agg.first = ArrayOf([k \in 1..Len(array) |-> InputValue(array[k])])
                    /\ agg.result = agg.first /\ ~agg.isError
              /\ ( /\ \A k \in 1..Len(array) : InputFulfilled(array[k]) /\ InputKept(array[k])
                   /\ ~agg.cancelled )
                    => agg.outcome = "fulfilled"
    /\ (lastCall.op = "all" /\ lastCall.arg.n = 0) =>
          /\ lastCall.exc = NoExc /\ lastCall.ret.t = "promise"
          /\ deferreds[lastCall.ret.n].outcome = "fulfilled"
          /\ deferreds[lastCall.ret.n].first = ArrayOf(<<>>)
          /\ deferreds[lastCall.ret.n].result = ArrayOf(<<>>)

\* Two pending Deferreds were given to all, the second was resolved before the
\* first, and the aggregate is fulfilled with the first one's value at the first
\* index.
C19_Witness ==
    \E s \in Aggregates :
        LET agg == deferreds[scopes[s].deferred]
            array == scopes[s].array
        IN  /\ Len(array) = 2 /\ array[1].t = "promise" /\ array[2].t = "promise"
            /\ array[1] # array[2]
            /\ agg.outcome = "fulfilled"
            /\ agg.first.items[1] = deferreds[array[1].n].first
            /\ agg.first.items[1].n > agg.first.items[2].n
            /\ lastCall.op = "resolve" /\ lastCall.d = array[1].n
            /\ ~lastCall.pre[array[1].n].fulfilled

\* The inputs of aggregate s that are promises of Deferred d.
InputsOf(s, d) == {k \in 1..Len(scopes[s].array) : scopes[s].array[k] = PromiseOf(d)}
\* The inputs of the array that were rejected in heap h.
RejectedIn(h, array) ==
    {k \in 1..Len(array) : array[k].t = "promise" /\ h[array[k].n].outcome = "rejected"}
\* The least index of a nonempty set of indices.
Least(S) == CHOOSE k \in S : \A j \in S : k <= j

\* Aggregate s, which was not cancelled and whose inputs are settled as they were
\* first settled, rejects with the error of the first input to reject and is left
\* alone from then on.
FirstRejectionWins(s) ==
    LET a == scopes[s].deferred
        array == scopes[s].array
        settles == lastCall.op \in {"resolve", "reject", "cancel"}
                      /\ InputsOf(s, lastCall.d) # {}
                      /\ a \in 1..Len(lastCall.pre)
                      /\ ~lastCall.pre[lastCall.d].fulfilled
    IN  (~deferreds[a].cancelled /\ \A k \in 1..Len(array) : InputKept(array[k])) =>
           \* an input rejected before the call of all: these are met in array order
           /\ (lastCall.op = "all" /\ lastCall.ret = PromiseOf(a)
                   /\ RejectedIn(lastCall.pre, array) # {}) =>
                 /\ deferreds[a].outcome = "rejected"
                 /\ deferreds[a].first =
                        lastCall.pre[array[Least(RejectedIn(lastCall.pre, array))].n].first
           \* the first input to reject after the call of all
           /\ (settles /\ ~lastCall.pre[a].fulfilled
                   /\ deferreds[lastCall.d].outcome = "rejected") =>
                 /\ deferreds[a].outcome = "rejected"
                 /\ deferreds[a].first = deferreds[lastCall.d].first
                 /\ deferreds[a].result = deferreds[a].first /\ deferreds[a].isError
           \* an input settling after the aggregate was rejected
           /\ (settles /\ lastCall.pre[a].outcome = "rejected") =>
                 deferreds[a] = lastCall.pre[a]
           /\ scopes[s].attempts <= 1

\* C20: all rejects with the error of the first input to reject; inputs settling
\* later change nothing of the aggregate, and the callbacks of all call
\* deferred.resolve or deferred.reject on the aggregate at most once, in the newer
\* and in the older module.
C20_AllRejectsWithFirstError == \A s \in Aggregates : FirstRejectionWins(s)

\* The last call cancelled the pending aggregate s.
CancelledPendingAggregate(s) ==
    /\ lastCall.op = "cancel" /\ lastCall.d = scopes[s].deferred
    /\ ~lastCall.pre[lastCall.d].fulfilled
\* The inputs of aggregate s that were pending before the last call and had a
\* cancel: the Deferreds behind them.
PendingInputs(s) ==
    {scopes[s].array[k].n : k \in {j \in 1..Len(scopes[s].array) :
        /\ scopes[s].array[j].t = "promise"
        /\ ~lastCall.pre[scopes[s].array[j].n].fulfilled
        /\ lastCall.pre[scopes[s].array[j].n].promiseCancel}}
\* The last call cancelled every such input: it ran its canceller once and left
\* the input settled.
EveryPendingInputCancelled(s) ==
    \A d \in PendingInputs(s) :
        Cardinality(CancellerRuns(d)) = 1 /\ deferreds[d].outcome # "pending"
\* The error a cancelled aggregate ends with: the error of the first input its
\* cancel rejected, or a CancelError when it rejected none.
CancelErrorOf(s) ==
    LET rejectedInputs == {d \in PendingInputs(s) : deferreds[d].outcome = "rejected"}
    IN  IF rejectedInputs = {} THEN CancelError
        ELSE deferreds[CHOOSE d \in rejectedInputs : \A x \in rejectedInputs : d <= x].first

C22_CancelAfterRejectionCancelsPending ==
    \A s \in Aggregates :
        LET a == scopes[s].deferred
            array == scopes[s].array
        IN  /\ ( /\ lastCall.op = "all" /\ lastCall.ret = PromiseOf(a)
                 /\ Len(array) = 2 /\ array[1].t = "promise" /\ array[2].t = "promise"
                 /\ lastCall.pre[array[1].n].outcome = "rejected"
                 /\ lastCall.pre[array[1].n].isError
                 /\ ~lastCall.pre[array[2].n].fulfilled )
                  => /\ deferreds[a].outcome = "rejected"
                     /\ deferreds[a].first = lastCall.pre[array[1].n].first
            /\ ( /\ lastCall.op = "cancel" /\ lastCall.d = a
                 /\ lastCall.pre[a].outcome = "rejected" /\ ~lastCall.pre[a].cancelled )
                  => EveryPendingInputCancelled(s)

\* The outcome of an input of first: a value that is no promise is fulfilled.
InputOutcome(h, v) == IF v.t = "promise" THEN h[v.n].outcome ELSE "fulfilled"
\* The inputs of the array that were settled in heap h.
SettledIn(h, array) == {k \in 1..Len(array) : InputOutcome(h, array[k]) # "pending"}

\* Aggregate s of first has the outcome and result of the input that settled first
\* (of the first in the array among those settled before the call), inputs
\* settling later change nothing of it, and its callbacks call deferred.resolve or
\* deferred.reject at most once.
FirstSettlementWins(s) ==
    LET a == scopes[s].deferred
        array == scopes[s].array
        settles == lastCall.op \in {"resolve", "reject"}
                      /\ PromiseOf(lastCall.d) \in {array[k] : k \in 1..Len(array)}
                      /\ a \in 1..Len(lastCall.pre)
                      /\ ~lastCall.pre[lastCall.d].fulfilled
    IN  /\ (lastCall.op = "first" /\ lastCall.ret = PromiseOf(a)) =>
              IF SettledIn(lastCall.pre, array) = {}
              THEN deferreds[a].outcome = "pending"
              ELSE LET v == array[Least(SettledIn(lastCall.pre, array))]
                   IN  /\ deferreds[a].outcome = InputOutcome(lastCall.pre, v)
                       /\ deferreds[a].first =
                              IF v.t = "promise" THEN lastCall.pre[v.n].first ELSE v
        /\ (settles /\ ~lastCall.pre[a].fulfilled) =>
              /\ deferreds[a].outcome = deferreds[lastCall.d].outcome
              /\ deferreds[a].first = deferreds[lastCall.d].first
              /\ deferreds[a].result = deferreds[a].first
              /\ deferreds[a].isError <=> deferreds[a].outcome = "rejected"
        /\ (settles /\ lastCall.pre[a].fulfilled) => deferreds[a] = lastCall.pre[a]
        /\ scopes[s].attempts <= 1

\* C23: first settles with the outcome and result of the input that settles
\* earliest, fulfilment or rejection alike; inputs settling afterwards are ignored:
\* the aggregate does not change and no second settlement of it is attempted.
C23_FirstSettlementWins == \A s \in Aggregates : FirstSettlementWins(s)

\* The result of the j-th invocation made by sequence s has fulfilled: the action
\* returned a plain value, or a promise that is fulfilled.
ResultFulfilled(s, j) ==
    LET action == scopes[s].actions[j]
    IN  \/ action = Inc
        \/ action.k = "retP" /\ deferreds[action.a].outcome = "fulfilled"
\* The value that result fulfilled with.
ResultValue(s, j) ==
    LET action == scopes[s].actions[j]
    IN  IF action = Inc THEN IncOf(scopes[s].invoked[j].arg) ELSE deferreds[action.a].first
\* The result of the j-th invocation made by sequence s is an error: the action
\* threw, or returned a promise that is rejected.
ResultRejected(s, j) ==
    LET action == scopes[s].actions[j]
    IN  \/ action = Thrower
        \/ action.k = "retP" /\ deferreds[action.a].outcome = "rejected"
ResultError(s, j) ==
    LET action == scopes[s].actions[j]
    IN  IF action = Thrower THEN Thrown ELSE deferreds[action.a].first

\* Sequence s invokes its actions in array order, each at most once, the first
\* with the starting value and each later one with the value the result of the
\* action before it fulfilled with, once that result has fulfilled; and the
\* aggregate fulfils with the value of the last action's result.
SeqRunsInOrder(s) ==
    LET a == deferreds[scopes[s].deferred]
        actions == scopes[s].actions
        invoked == scopes[s].invoked
        n == Len(actions)
        last == IF n = 0 THEN scopes[s].startingValue ELSE ResultValue(s, n)
    IN  /\ \A j \in 1..Len(invoked) : invoked[j].index = j
        /\ Len(invoked) >= 1 => invoked[1].arg = scopes[s].startingValue
        /\ \A j \in 1..(Len(invoked) - 1) :
              ResultFulfilled(s, j) /\ invoked[j + 1].arg = ResultValue(s, j)
        /\ ~scopes[s].cancelled =>
              /\ n >= 1 => Len(invoked) >= 1
              /\ \A j \in 1..(n - 1) :
                    (j <= Len(invoked) /\ ResultFulfilled(s, j)) => Len(invoked) >= j + 1
              /\ (Len(invoked) = n /\ (n = 0 \/ ResultFulfilled(s, n))) =>
                    a.outcome = "fulfilled" /\ a.first = last /\ a.result = last
        /\ a.outcome = "fulfilled" => Len(invoked) = n /\ a.first = last

\* C24: seq invokes the actions one at a time in array order, action i+1 not
\* before the result of action i has fulfilled and with that value (the first
\* with initialValue), every action at most once, and the aggregate fulfils with
\* the last action's value.
C24_SeqRunsInOrder == \A s \in Aggregates : SeqRunsInOrder(s)

\* C25: when an action of seq throws, or the promise it returned is rejected, the
\* aggregate (unless it was cancelled before) is rejected with that error, and no
\* later action is invoked.
C25_SeqStopsOnError ==
    \A s \in Aggregates :
        \A j \in 1..Len(scopes[s].invoked) :
            ResultRejected(s, j) =>
                /\ Len(scopes[s].invoked) = j
                /\ ~deferreds[scopes[s].deferred].cancelled =>
                      /\ deferreds[scopes[s].deferred].outcome = "rejected"
                      /\ deferreds[scopes[s].deferred].first = ResultError(s, j)
                      /\ deferreds[scopes[s].deferred].result = ResultError(s, j)

\* The promise the first of several actions returned was rejected after the call
\* of seq: the aggregate is rejected with its error and the next action was not
\* invoked.
C25_Witness ==
    \E s \in Aggregates :
        /\ lastCall.op = "reject" /\ ~lastCall.pre[lastCall.d].fulfilled
        /\ Len(lastCall.pre) >= scopes[s].deferred
        /\ Len(scopes[s].actions) = 2 /\ Len(scopes[s].invoked) = 1
        /\ scopes[s].actions[1] = Fn("retP", lastCall.d)
        /\ deferreds[scopes[s].deferred].outcome = "rejected"
        /\ deferreds[scopes[s].deferred].first = lastCall.arg

\* The last call settled a Deferred of the program after the aggregate of
\* sequence s was cancelled.
SettledAfterCancel(s) ==
    /\ lastCall.op \in {"resolve", "reject"}
    /\ Len(lastCall.pre) >= scopes[s].deferred
    /\ ~lastCall.pre[lastCall.d].fulfilled
    /\ lastCall.pre[scopes[s].deferred].cancelled

\* C26: cancelling the pending aggregate of seq rejects it with a CancelError; no
\* action is invoked once the aggregate is settled, and the in-flight step
\* settling after the cancel changes nothing of the aggregate.
C26_SeqCancelled ==
    \A s \in Aggregates :
        LET a == scopes[s].deferred
        IN  /\ \A j \in 1..Len(scopes[s].invoked) : ~scopes[s].invoked[j].settled
            /\ (lastCall.op = "cancel" /\ lastCall.d = a /\ ~lastCall.pre[a].fulfilled) =>
                  deferreds[a].cancelled /\ lastCall.exc = NoExc
            /\ deferreds[a].cancelled =>
                  /\ deferreds[a].outcome = "rejected" /\ deferreds[a].first = CancelError
                  /\ deferreds[a].result = CancelError /\ deferreds[a].isError
            /\ SettledAfterCancel(s) => deferreds[a] = lastCall.pre[a]

\* The aggregate was cancelled while the promise of the first of two actions was
\* pending, and that promise was resolved afterwards: the second action was not
\* invoked.
C26_Witness ==
    \E s \in Aggregates :
        /\ SettledAfterCancel(s) /\ lastCall.op = "resolve"
        /\ Len(scopes[s].actions) = 2 /\ Len(scopes[s].invoked) = 1
        /\ scopes[s].actions[1] = Fn("retP", lastCall.d)
        /\ deferreds[scopes[s].deferred].first = CancelError

\* C27: the promise of delay is pending when delay returns; it is fulfilled, with
\* no value, by the firing of its timer and by nothing else; cancelled first it is
\* rejected with a CancelError, and its timer firing afterwards attempts no
\* settlement and changes nothing.
C27_DelayFulfilsWhenTimerFires ==
    \A s \in Aggregates :
        LET a == scopes[s].deferred
            existed == a \in 1..Len(lastCall.pre)
            fires == lastCall.op = "delayFires" /\ lastCall.d = a
        IN  /\ (lastCall.op = "delay" /\ lastCall.ret = PromiseOf(a)) =>
                  deferreds[a].outcome = "pending" /\ ~deferreds[a].fulfilled
            /\ deferreds[a].outcome = "fulfilled" =>
                  /\ scopes[s].fired /\ ~deferreds[a].cancelled
                  /\ deferreds[a].first = Undefined /\ deferreds[a].result = Undefined
            /\ (existed /\ ~lastCall.pre[a].fulfilled /\ deferreds[a].outcome = "fulfilled")
                  => fires
            /\ (fires /\ ~lastCall.pre[a].fulfilled) =>
                  deferreds[a].outcome = "fulfilled" /\ lastCall.exc = NoExc
            /\ (lastCall.op = "cancel" /\ RootOf(lastCall.d) = a /\ existed
                    /\ ~lastCall.pre[a].fulfilled) =>
                  deferreds[a].cancelled
            /\ deferreds[a].cancelled =>
                  deferreds[a].outcome = "rejected" /\ deferreds[a].first = CancelError
            /\ (fires /\ lastCall.pre[a].fulfilled) =>
                  deferreds[a] = lastCall.pre[a] /\ lastCall.exc = NoExc

\* The timer of a delay fired after its promise was cancelled.
C27_Witness ==
    \E s \in Aggregates :
        /\ lastCall.op = "delayFires" /\ lastCall.d = scopes[s].deferred
        /\ lastCall.pre[lastCall.d].cancelled
        /\ deferreds[lastCall.d].first = CancelError
        /\ scopes[s].fired

\* The call of the completion callback the last top-level call made on a pending
\* promise of execute or of a wrapper: the Deferred and the arguments.  A call
\* within execute or within the wrapper is made by the asyncFunction.
CallbackCalled ==
    IF lastCall.op = "callback" /\ ~lastCall.pre[lastCall.d].fulfilled
    THEN {[d |-> lastCall.d, arguments |-> lastCall.arg.items, thenThrew |-> FALSE]}
    ELSE IF /\ lastCall.op \in {"execute", "converted"}
            /\ lastCall.arg.cb = "call"
            /\ deferreds[Len(lastCall.pre) + 1].origin \in {"execute", "convertAsync"}
    THEN {[d |-> Len(lastCall.pre) + 1, arguments |-> lastCall.arg.arguments,
           thenThrew |-> lastCall.arg.throws]}
    ELSE {}

\* The Deferred d was settled as rejected with error.
SettledRejected(c, error) ==
    /\ deferreds[c.d].outcome = "rejected" /\ deferreds[c.d].first = error
    /\ deferreds[c.d].fulfilled /\ deferreds[c.d].result = error
    /\ deferreds[c.d].isError

\* The Deferred d was settled as fulfilled with value; it is still so unless the
\* asyncFunction threw after the callback returned.
SettledFulfilled(c, value) ==
    /\ deferreds[c.d].outcome = "fulfilled" /\ deferreds[c.d].first = value
    /\ deferreds[c.d].fulfilled /\ deferreds[c.d].result = value
    /\ ~c.thenThrew => ~deferreds[c.d].isError

\* The (error, ...results) convention, isError telling the errors that reject.
ByConvention(c, isError(_)) ==
    LET error == IF Len(c.arguments) >= 1 THEN c.arguments[1] ELSE Undefined
        results == IF Len(c.arguments) >= 2 THEN SubSeq(c.arguments, 2, Len(c.arguments))
                   ELSE <<>>
    IN  IF isError(error) THEN SettledRejected(c, error)
        ELSE IF Len(results) > 1 THEN SettledFulfilled(c, ArrayOf(results))
        ELSE IF Len(results) = 1 THEN SettledFulfilled(c, results[1])
        ELSE SettledFulfilled(c, Undefined)

NonNull(error) == error.t \notin {"null", "undefined"}

\* C28 as stated: the completion callback of execute and of a wrapper of
\* convertAsync, called on the pending promise, rejects it with the error when the
\* error is not null, fulfils it with the single success value, and fulfils it with
\* the sequence of the success values in order when there are several.
C28_CompletionNonNullErrorRejects ==
    \A c \in CallbackCalled : ByConvention(c, NonNull)

\* C28 amended: the same with the errors that reject being the truthy ones; a
\* first argument that is null, undefined, false, 0 or "" counts as no error.
C28_CompletionTruthyErrorRejects ==
    \A c \in CallbackCalled : ByConvention(c, Truthy)

\* The callback of a wrapper of convertAsync, called in a later turn with the
\* error 0 and two success values, fulfilled the promise with the two in order.
C28_Witness ==
    /\ lastCall.op = "callback" /\ lastCall.arg.items = <<Num(0), Num(2), Num(1)>>
    /\ ~lastCall.pre[lastCall.d].fulfilled
    /\ deferreds[lastCall.d].origin = "convertAsync"
    /\ deferreds[lastCall.d].outcome = "fulfilled"
    /\ deferreds[lastCall.d].first = ArrayOf(<<Num(2), Num(1)>>)

\* C29: a call of execute whose asyncFunction throws returns, without throwing, a
\* promise that is rejected, whether or not the asyncFunction called the completion
\* callback before it threw.
C29_ExecuteNeverThrows ==
    (lastCall.op = "execute" /\ lastCall.arg.throws) =>
        /\ lastCall.exc = NoExc
        /\ lastCall.ret.t = "promise"
        /\ deferreds[lastCall.ret.n].outcome = "rejected"
        /\ deferreds[lastCall.ret.n].isError

\* The heap before the last top-level call, the promise it returned not yet held.
PreMachine ==
    [deferreds |-> lastCall.pre,
     held |-> {d \in held : d <= Len(lastCall.pre)},
     log |-> SubSeq(log, 1, lastCall.preLog),
     cancelLog |-> SubSeq(cancelLog, 1, lastCall.preCancels),
     timers |-> SubSeq(timers, 1, lastCall.preTimers),
     emitted |-> SubSeq(emitted, 1, lastCall.preEmitted),
     scopes |-> scopes]

\* The callbacks the last top-level call invoked or passed by, in order.
Invoked == SubSeq(log, lastCall.preLog + 1, Len(log))
InvokedOn(track) == {i \in 1..Len(Invoked) : Invoked[i].track = track}

\* What when does with the value initialCallback returned, on the heap before the
\* call of whenCall.
WhenOnResult ==
    LET w == lastCall.arg
        r == CallFn(InitCalled(PreMachine, w.initialCallback), w.initialCallback, Undefined)
    IN  when(r.m, r.ret, w.resolvedCallback, w.rejectCallback, NoFn)

\* C30: whenCall calls initialCallback once, before anything else.  When it throws,
\* whenCall returns a promise made from one rejected with the thrown value:
\* rejectCallback is called once, with that value, and resolvedCallback is not.
\* Otherwise whenCall does what when does with the value returned: the same heap,
\* the same callbacks called with the same arguments, the same result; for a value
\* without then, resolvedCallback is called at once with the value.
C30_WhenCall ==
    lastCall.op = "whenCall" =>
        LET w == lastCall.arg
            value == IF w.initialCallback.k = "ret" THEN w.initialCallback.a
                     ELSE PromiseOf(w.initialCallback.a)
        IN  /\ InvokedOn("init") = {1}
            /\ lastCall.exc = NoExc /\ lastCall.ret.t = "promise"
            /\ w.initialCallback.k = "throw" =>
                  /\ InvokedOn("resolved") = {}
                  /\ \E i \in InvokedOn("error") :
                        /\ InvokedOn("error") = {i}
                        /\ Invoked[i].fn = w.rejectCallback /\ Invoked[i].arg = Thrown
                        /\ deferreds[Invoked[i].src].outcome = "rejected"
                        /\ deferreds[Invoked[i].src].first = Thrown
                        /\ PromiseOf(Invoked[i].dst) = lastCall.ret
            /\ w.initialCallback.k # "throw" =>
                  /\ WhenOnResult.m.deferreds = deferreds
                  /\ WhenOnResult.m.log = log
                  /\ WhenOnResult.m.timers = timers
                  /\ WhenOnResult.ret = lastCall.ret
                  /\ WhenOnResult.exc = lastCall.exc
            /\ w.initialCallback.k = "ret" =>
                  /\ InvokedOn("error") = {}
                  /\ \E i \in InvokedOn("resolved") :
                        /\ InvokedOn("resolved") = {i}
                        /\ Invoked[i].fn = w.resolvedCallback /\ Invoked[i].arg = value
                        /\ deferreds[Invoked[i].src].origin = "resolved"

\* whenCall with an initialCallback that threw and a rejectCallback that then
\* threw itself: the promise returned is rejected.
C30_Witness ==
    /\ lastCall.op = "whenCall"
    /\ lastCall.arg.initialCallback.k = "throw"
    /\ lastCall.arg.rejectCallback = Thrower
    /\ lastCall.ret.t = "promise"
    /\ deferreds[lastCall.ret.n].outcome = "rejected"

\* The last top-level call was get, put or call on a target that is no promise.
PlainTargetCall ==
    /\ lastCall.op \in {"get", "put", "call"}
    /\ ~IsThenable(lastCall.arg.target)

\* The same operation on the heap before the call, on resolved(target).
ViaPromise ==
    LET r == resolved(PreMachine, lastCall.arg.target)
    IN  perform(r.m, r.ret, lastCall.arg.op)

\* The arguments the methods received in the part of the log after index from.
Received(entries, from) ==
    LET part == SubSeq(entries, from + 1, Len(entries))
    IN  [i \in {i \in 1..Len(part) : part[i].track = "method"} |-> part[i].arg]

\* C31: get, put and call return a promise without throwing; on a plain target
\* that yields a fulfilled result, the same operation on a promise fulfilled with
\* that target yields the same fulfilled result, and the method invoked by call
\* receives the same arguments either way.
C31_PlainAndPromiseTargetsAgree ==
    /\ lastCall.op \in {"get", "put", "call"} =>
          lastCall.exc = NoExc /\ lastCall.ret.t = "promise"
    /\ PlainTargetCall =>
          /\ deferreds[lastCall.ret.n].outcome = "fulfilled" =>
                /\ ViaPromise.ret.t = "promise"
                /\ ViaPromise.m.deferreds[ViaPromise.ret.n].outcome = "fulfilled"
                /\ ViaPromise.m.deferreds[ViaPromise.ret.n].first
                      = deferreds[lastCall.ret.n].first
          /\ Received(ViaPromise.m.log, lastCall.preLog) = Received(log, lastCall.preLog)

\* C38: when get, put or call on a plain target fails synchronously, the promise
\* returned is rejected with the error that was thrown.
C38_SyncFailureRejectsWithError ==
    (PlainTargetCall /\ Threw(performSync(PreMachine, lastCall.arg.target, lastCall.arg.op))) =>
        /\ lastCall.exc = NoExc /\ lastCall.ret.t = "promise"
        /\ deferreds[lastCall.ret.n].outcome = "rejected"
        /\ deferreds[lastCall.ret.n].first
              = performSync(PreMachine, lastCall.arg.target, lastCall.arg.op).exc

\* The Deferreds of the listeners whose progress callbacks the last call invoked
\* in its broadcast on d, in the order of the calls.
Visited(d) ==
    LET entries == SelectSeq(Invoked, LAMBDA x : x.track = "progress" /\ x.src = d)
    IN  [i \in 1..Len(entries) |-> entries[i].dst]

\* The listeners of d at the start of the last call that have a progress callback,
\* in the order of registration, then the listeners registered on d during the
\* call, in that order.
RECURSIVE Upwards(_, _)
Upwards(from, to) == IF from > to THEN <<>> ELSE <<from>> \o Upwards(from + 1, to)
ToVisit(d) ==
    LET waiting == SelectSeq(lastCall.pre[d].waiting, LAMBDA x : x.progress # NoFn)
        registered == SelectSeq(Upwards(Len(lastCall.pre) + 1, Len(deferreds)),
                                LAMBDA c : deferreds[c].parent = d)
    IN  [i \in 1..Len(waiting) |-> waiting[i].deferred] \o registered

BroadcastOnPending == lastCall.op = "progress" /\ ~lastCall.pre[lastCall.d].fulfilled

ProgressInvoked == SelectSeq(Invoked, LAMBDA x : x.track = "progress")

\* C40: a progress call on a Deferred invokes progress callbacks of listeners of
\* that Deferred alone, never those registered on a promise derived from it; and
\* unless a callback it invokes registers a listener or settles a Deferred, it
\* leaves every Deferred as it was: outcome, result and queue of listeners.
C40_ProgressReachesDirectListenersOnly ==
    lastCall.op = "progress" =>
        /\ \A i \in 1..Len(ProgressInvoked) :
              /\ ProgressInvoked[i].src = lastCall.d
              /\ deferreds[ProgressInvoked[i].dst].parent = lastCall.d
        /\ (\A i \in 1..Len(ProgressInvoked) : ProgressInvoked[i].fn \in {Note, Thrower}) =>
              /\ deferreds = lastCall.pre
              /\ Len(timers) = lastCall.preTimers
              /\ Len(emitted) = lastCall.preEmitted

\* A progress call invoked the progress callback of a listener of the Deferred
\* while a promise derived from it had a listener with a progress callback.
C40_Witness ==
    /\ lastCall.op = "progress" /\ lastCall.exc = NoExc
    /\ Len(ProgressInvoked) >= 1
    /\ \A i \in 1..Len(ProgressInvoked) : ProgressInvoked[i].fn = Note
    /\ \E c \in 1..Len(deferreds) :
          /\ deferreds[c].parent = lastCall.d
          /\ \E k \in 1..Len(deferreds[c].waiting) : deferreds[c].waiting[k].progress = Note

\* The runs of the canceller of d so far.
RunsOfCanceller(d) == {i \in 1..Len(cancelLog) : cancelLog[i].d = d}

\* C39: a canceller of the program that returns normally (it returns nothing,
\* returns an error, or settles its Deferred) has run at most once, whatever cancel
\* calls on the Deferred and on promises derived from it and whatever timeout
\* firings there were.
C39_CancellerRunsAtMostOnce ==
    \A d \in 1..Len(deferreds) :
        deferreds[d].canceller.k \in {"undef", "err", "settle"} =>
            Cardinality(RunsOfCanceller(d)) <= 1

\* A cancel, on a promise derived from d or by the timeout of d, that came after
\* the canceller of d had run: it did not run again.
C39_Witness ==
    /\ lastCall.op \in {"cancel", "timeoutFires"}
    /\ lastCall.d \in 1..Len(lastCall.pre)
    /\ LET d == RootOf(lastCall.d)
       IN  /\ deferreds[d].canceller.k \in {"undef", "err", "settle"}
           /\ lastCall.preCancels = 1
           /\ Cardinality(RunsOfCanceller(d)) = 1
           /\ lastCall.op = "cancel" => lastCall.d # d

\* C34: whatever the callbacks do, between two calls every listener registered on
\* a settled Deferred has been notified exactly once and the queue of a settled
\* Deferred is drained; a then call on a settled Deferred notifies the new
\* listener before it returns.
C34_SettlementDrainsTheQueue ==
    /\ \A d \in Ids : deferreds[d].fulfilled =>
          /\ deferreds[d].drained /\ deferreds[d].waiting = <<>>
          /\ \A c \in Children(d) : Cardinality(Entries(c)) = 1
    /\ (lastCall.op = "then" /\ lastCall.pre[lastCall.d].fulfilled) =>
          /\ lastCall.exc = NoExc
          /\ Cardinality(Entries(Len(lastCall.pre) + 1)) = 1

\* The last call settled, from outside, a pending input of aggregate s after the
\* aggregate had been rejected by cancel's own reject.
InputSettledAfterCancel(s) ==
    /\ lastCall.op \in {"resolve", "reject"}
    /\ PromiseOf(lastCall.d) \in {scopes[s].array[k] : k \in 1..Len(scopes[s].array)}
    /\ scopes[s].deferred \in 1..Len(lastCall.pre)
    /\ lastCall.pre[scopes[s].deferred].cancelled
    /\ ~lastCall.pre[lastCall.d].fulfilled
\* The promises when made of Deferred d for an aggregate.
WhenPromises(d) == {c \in Ids : deferreds[c].origin = "then" /\ deferreds[c].parent = d}

\* C35: once the aggregate of all has been rejected through cancel, the settling of
\* an input that could not be cancelled is ignored: the call returns normally,
\* the callbacks of all raise nothing (the promise when made for the input is
\* fulfilled with what the callback returned), they call deferred.resolve or
\* deferred.reject on the aggregate not once, the aggregate is as it was, and no
\* check for an unhandled rejection is scheduled.
C35_SettlementAfterCancelIgnored ==
    \A s \in Aggregates :
        InputSettledAfterCancel(s) =>
            /\ lastCall.exc = NoExc
            /\ \A c \in WhenPromises(lastCall.d) : deferreds[c].outcome # "rejected"
            /\ scopes[s].attempts = 0
            /\ deferreds[scopes[s].deferred] = lastCall.pre[scopes[s].deferred]
            /\ timers = lastCall.preTimers

\* The same for the aggregate of first.
C35_FirstSettlementAfterCancelIgnored ==
    \A s \in Aggregates :
        InputSettledAfterCancel(s) =>
            /\ lastCall.exc = NoExc
            /\ \A c \in WhenPromises(lastCall.d) : deferreds[c].outcome # "rejected"
            /\ scopes[s].attempts = 0
            /\ timers = lastCall.preTimers


\* The listeners waiting on Deferred d before the last call whose callbacks are
\* the resolve or reject of a promise that cancel's own reject had rejected: the
\* listeners notify registers for a promise derived through then when the
\* callback returned the promise of d (origin "then"), and the listener seq
\* registers for its aggregate (origin "seq").
AwaitingCancelled(d, origin) ==
    {i \in 1..Len(lastCall.pre[d].waiting) :
        LET fn == lastCall.pre[d].waiting[i].error
        IN  /\ fn.k = "reject"
            /\ lastCall.pre[fn.a].origin = origin
            /\ lastCall.pre[fn.a].cancelled}
\* The calls of resolve or reject on Deferred p that the last call made through
\* the callbacks of then.
SettlementsBy(p) ==
    {i \in (lastCall.preLog + 1)..Len(log) :
        log[i].fn \in {Fn("resolve", p), Fn("reject", p)}}
\* The last call settled a pending Deferred from outside.
SettledPending ==
    /\ lastCall.op \in {"resolve", "reject"}
    /\ ~lastCall.pre[lastCall.d].fulfilled
\* The later settling of the awaited Deferred is ignored by every promise that
\* was cancelled while awaiting it: no resolve or reject is called on the
\* promise, and the promise made for the listener is not rejected, so that no
\* check for an unhandled rejection is scheduled for it.
AwaitedSettlementIgnored(origin) ==
    SettledPending =>
        \A i \in AwaitingCancelled(lastCall.d, origin) :
            LET l == lastCall.pre[lastCall.d].waiting[i]
            IN  /\ SettlementsBy(l.error.a) = {}
                /\ deferreds[l.deferred].outcome # "rejected"
                /\ \A k \in 1..Len(timers) : timers[k].d # l.deferred

\* C36: a promise derived through then whose callback returned a Future Value
\* waits on it; once cancel has rejected the derived promise, the later fulfilment
\* or rejection of that Future Value calls neither resolve nor reject on the
\* cancelled promise and schedules no check for an unhandled rejection.
C36_SettlementOfAwaitedIgnoredAfterCancel ==
    AwaitedSettlementIgnored("then")

\* The same for the aggregate of seq waiting on the promise an action returned.
C36_SeqSettlementOfAwaitedIgnoredAfterCancel ==
    AwaitedSettlementIgnored("seq")


\* The request of the program has been made.
Requested == scopes # <<>>
\* The Deferred behind the promise request returned.
ResponseDeferred == scopes[TheRequest].deferred
\* The last call was a cancel, on the promise request returned or on one derived
\* from it, or the firing of the timeout, while the promise of request was pending.
CancelledPending ==
    /\ lastCall.op = "cancel"
    /\ ~lastCall.pre[ResponseDeferred].fulfilled
TimedOutPending ==
    /\ lastCall.op = "timeoutFires"
    /\ ~lastCall.pre[ResponseDeferred].fulfilled

\* C32: when the timeout of request elapses while its promise is pending (no
\* response has fulfilled it, no error or close has rejected it), the promise is
\* rejected with a TimeoutError; when the promise is cancelled while pending it
\* is rejected with a CancelError; in both cases req.abort() has been called;
\* and the guarded body of the canceller runs at most once in any run.
C32_RequestTimeoutAndCancel ==
    Requested =>
        /\ TimedOutPending =>
              /\ deferreds[ResponseDeferred].outcome = "rejected"
              /\ deferreds[ResponseDeferred].first = TimeoutError
              /\ scopes[TheRequest].aborts >= 1
        /\ CancelledPending =>
              /\ deferreds[ResponseDeferred].outcome = "rejected"
              /\ deferreds[ResponseDeferred].first = CancelError
              /\ scopes[TheRequest].aborts >= 1
        /\ scopes[TheRequest].bodies <= 1

\* The timeout of a request fired before any response and rejected the promise
\* with a TimeoutError, the request aborted once.
C32_Witness ==
    /\ Requested
    /\ TimedOutPending
    /\ "response" \notin scopes[TheRequest].events
    /\ deferreds[ResponseDeferred].first = TimeoutError
    /\ scopes[TheRequest].aborts = 1
    /\ scopes[TheRequest].bodies = 1

\* C37: the response Deferred of request is settled at most once: no event
\* handler calls resolve or reject on it after it has been settled, whatever the
\* order of the response, error and close events, the timeout and cancel.
C37_ResponseSettledAtMostOnce ==
    Requested =>
        \A i \in 1..Len(scopes[TheRequest].settlements) :
            ~scopes[TheRequest].settlements[i].settled

====
